---- MODULE Spec2Model ----
(***************************************************************************)
(* A model of bl: the spec loader (bl/spec_parser.py), the concurrent      *)
(* assembly engine (bl/spec_processor.py) and the command line entry       *)
(* (bl/__main__.py).                                                       *)
(*                                                                         *)
(* Strings are sequences of one-character strings, so that split, the      *)
(* regular expressions and the "loc-" prefix are computed, not assumed.    *)
(***************************************************************************)
EXTENDS Integers, Sequences, FiniteSets, TLC

(***************************************************************************)
(* Bounds of the model.                                                    *)
(***************************************************************************)
\* the semaphore capacity ranges over 1..MaxConcurrency
MaxConcurrency == 2
\* slot "a" declares its base and 0..MaxMerges further merge entries
MaxMerges == 2
\* slot "a" declares 0..MaxPatches patch globs
MaxPatches == 1

(***************************************************************************)
(* Program constants.                                                      *)
(***************************************************************************)
\* the {40} of ref_pattern
HexLen == 40
\* refspec[:10], the fallback branch name of checkout -b
ShortLen == 10
\* the maxsplit of merge_entry.split(" ", 2)
MergeMaxSplit == 2
\* the maxsplit of src.split(" ", 1)
SrcMaxSplit == 1

(***************************************************************************)
(* Strings.                                                                *)
(***************************************************************************)
\* Python's None: a sequence no string of characters is equal to
None == <<"None">>

Digits == {"0", "1", "2", "3", "4", "5", "6", "7", "8", "9"}

LowerAZ == {"a", "b", "c", "d", "e", "f", "g", "h", "i", "j", "k", "l", "m",
            "n", "o", "p", "q", "r", "s", "t", "u", "v", "w", "x", "y", "z"}

\* Python truthiness of an optional string
Truthy(x) == x # None /\ x # <<>>

\* Python's `a or b` on optional strings
OrElse(a, b) == IF Truthy(a) THEN a ELSE b

Rep(c, n) == [i \in 1..n |-> c]

\* index of the first sep in s, 0 when there is none
IndexOf(s, sep) ==
    IF \E i \in 1..Len(s) : s[i] = sep
    THEN CHOOSE i \in 1..Len(s) : s[i] = sep /\ \A j \in 1..(i - 1) : s[j] # sep
    ELSE 0

\* str.split(sep, maxsplit)
RECURSIVE Split(_, _, _)
Split(s, sep, maxsplit) ==
    LET i == IndexOf(s, sep) IN
    IF maxsplit = 0 \/ i = 0
    THEN <<s>>
    ELSE <<SubSeq(s, 1, i - 1)>> \o Split(SubSeq(s, i + 1, Len(s)), sep, maxsplit - 1)

\* " ".join(parts)
RECURSIVE Join(_)
Join(parts) ==
    IF Len(parts) = 0 THEN <<>>
    ELSE IF Len(parts) = 1 THEN parts[1]
    ELSE parts[1] \o <<" ">> \o Join(Tail(parts))

StartsWith(s, p) == Len(s) >= Len(p) /\ SubSeq(s, 1, Len(p)) = p

S_loc == <<"l", "o", "c", "-">>
S_pr == <<"p", "r", "/">>
S_refs_pull == <<"r", "e", "f", "s", "/", "p", "u", "l", "l", "/">>
S_head == <<"/", "h", "e", "a", "d">>
S_main == <<"m", "a", "i", "n">>
S_dev == <<"d", "e", "v">>
S_fix == <<"f", "i", "x">>
S_pr7 == S_refs_pull \o <<"7">> \o S_head
S_o == <<"o">>
S_p == <<"p">>
S_origin == <<"o", "r", "i", "g", "i", "n">>
S_url == <<"u">>
S_url2 == <<"v">>

\* commit identifiers of the remotes' history: ShaA is the parent of ShaB
ShaA == Rep("a", HexLen)
ShaB == Rep("b", HexLen)
ShaC == Rep("c", HexLen)
ShaD == Rep("d", HexLen)

(***************************************************************************)
(* bl/spec_parser.py                                                       *)
(***************************************************************************)
\* refs/pull/<digits>/head
PrShape(v) ==
    \E n \in 1..Len(v) :
        /\ Len(v) = Len(S_refs_pull) + n + Len(S_head)
        /\ SubSeq(v, 1, Len(S_refs_pull)) = S_refs_pull
        /\ \A i \in (Len(S_refs_pull) + 1)..(Len(S_refs_pull) + n) : v[i] \in Digits
        /\ SubSeq(v, Len(S_refs_pull) + n + 1, Len(v)) = S_head

\* [a-z0-9]{40}
RefShape(v) ==
    /\ Len(v) = HexLen
    /\ \A i \in 1..Len(v) : v[i] \in (LowerAZ \cup Digits)

\* re.match of ^...$: the $ also matches before a newline that ends the string
ChopNewline(v) ==
    IF Len(v) > 0 /\ v[Len(v)] = "\n" THEN SubSeq(v, 1, Len(v) - 1) ELSE v

\* pr_pattern: ^refs/pull/\d+/head$
MatchesPrPattern(v) == PrShape(v) \/ PrShape(ChopNewline(v))

\* ref_pattern: ^[a-z0-9]{40}$
MatchesRefPattern(v) == RefShape(v) \/ RefShape(ChopNewline(v))

get_origin_type(origin_value) ==
    IF MatchesPrPattern(origin_value) THEN "PR"
    ELSE IF MatchesRefPattern(origin_value) THEN "REF"
    ELSE "BRANCH"

RefspecInfo(remote, ref_str, type, ref_name) ==
    [remote |-> remote, refspec |-> ref_str, type |-> type, ref_name |-> ref_name]

\* dict.get on a dict given as a set of <<key, value>> pairs
DictHas(d, k) == \E kv \in d : kv[1] = k
DictGet(d, k) == IF DictHas(d, k) THEN (CHOOSE kv \in d : kv[1] = k)[2] ELSE None

\* dict.get on a dict of dicts; a missing key gives the empty dict ( `or {}` )
DictGetDict(d, k) == IF DictHas(d, k) THEN (CHOOSE kv \in d : kv[1] = k)[2] ELSE {}

\* the descriptor of a two-part entry "<remote> <refspec>"
ParseTwoPart(parts, has_frozen, frozen_for_section) ==
    LET remote_key == parts[1]
        orig == parts[2]
        remote_freezes == DictGetDict(frozen_for_section, remote_key)
        frozen_ref == DictGet(remote_freezes, orig)
    IN  IF has_frozen
        THEN RefspecInfo(remote_key, OrElse(frozen_ref, orig), "REF", orig)
        ELSE RefspecInfo(remote_key, orig, get_origin_type(orig), None)

\* the descriptor of a deprecated three-part entry "<remote> <url> <refspec>"
ParseThreePart(parts, has_frozen, frozen_for_section) ==
    LET remote_key == parts[1]
        orig == parts[3]
        remote_freezes == DictGetDict(frozen_for_section, remote_key)
    IN  IF has_frozen
        THEN RefspecInfo(remote_key, DictGet(remote_freezes, orig), get_origin_type(orig), orig)
        ELSE RefspecInfo(remote_key, orig, get_origin_type(orig), None)

\* the for loop over merges: entries of one or no part yield nothing
RECURSIVE ParseMerges(_, _, _)
ParseMerges(merges, has_frozen, frozen_for_section) ==
    IF Len(merges) = 0 THEN <<>>
    ELSE LET parts == Split(merges[1], " ", MergeMaxSplit)
             rest == ParseMerges(Tail(merges), has_frozen, frozen_for_section)
         IN  IF Len(parts) = 2
             THEN <<ParseTwoPart(parts, has_frozen, frozen_for_section)>> \o rest
             ELSE IF Len(parts) = 3
             THEN <<ParseThreePart(parts, has_frozen, frozen_for_section)>> \o rest
             ELSE rest

make_remote_merge_from_src(src) ==
    LET parts == Split(src, " ", SrcMaxSplit)
    IN  [remotes |-> <<<<S_origin, parts[1]>>>>,
         merges |-> <<S_origin \o <<" ">> \o parts[2]>>]

\* dict.update on an insertion-ordered dict given as a sequence of pairs
RECURSIVE DictUpdate(_, _)
DictUpdate(d, upd) ==
    IF Len(upd) = 0 THEN d
    ELSE LET k == upd[1][1]
             v == upd[1][2]
             d1 == IF \E i \in 1..Len(d) : d[i][1] = k
                   THEN [i \in 1..Len(d) |-> IF d[i][1] = k THEN <<k, v>> ELSE d[i]]
                   ELSE Append(d, <<k, v>>)
         IN  DictUpdate(d1, Tail(upd))

\* one iteration of the loop over data.items(): the ModuleSpec of a section
load_section(section_name, section_data, frozen_mapping) ==
    LET raw == DictGet(frozen_mapping, section_name)
        is_dict == DictHas(frozen_mapping, section_name)
        frozen_for_section == IF is_dict THEN raw ELSE {}
        has_frozen == is_dict /\ raw # {}
        src == section_data.src
        desugar == make_remote_merge_from_src(src)
        remotes == IF Truthy(src)
                   THEN DictUpdate(section_data.remotes, desugar.remotes)
                   ELSE section_data.remotes
        merges == IF Truthy(src)
                  THEN desugar.merges \o section_data.merges
                  ELSE section_data.merges
    IN  [modules |-> section_data.modules,
         remotes |-> remotes,
         refspec_info |-> ParseMerges(merges, has_frozen, frozen_for_section),
         shell_commands |-> section_data.shell_commands,
         patch_globs_to_apply |-> section_data.patch_globs,
         target_folder |-> section_data.target_folder,
         locales |-> section_data.locales]

\* load_spec_file once both documents are read: slot name -> ModuleSpec
load_spec_file(data, frozen_mapping) ==
    [name \in DOMAIN data |-> load_section(name, data[name], frozen_mapping)]

(***************************************************************************)
(* The inputs: the spec document, the frozen document, the state of the    *)
(* disk before the run, the remotes.                                       *)
(***************************************************************************)
Slots == {"a", "odoo"}

\* the order of project_spec.specs.items()
SlotOrder == <<"a", "odoo">>

SlotIndex(s) == CHOOSE i \in 1..Len(SlotOrder) : SlotOrder[i] = s

Entry2(remote, refspec) == Join(<<remote, refspec>>)
Entry3(remote, url, refspec) == Join(<<remote, url, refspec>>)

\* the merge entries slot "a" may declare after its base, in this order
MergePool == <<Entry2(S_o, S_pr7), Entry2(S_p, S_dev), Entry3(S_o, S_url, S_fix)>>

PatchPool == <<<<"x">>, <<"y">>>>

Prefix(seq, n) == SubSeq(seq, 1, n)

\* the sections of the spec document for slot "a"
SectionsA ==
    { [modules |-> <<<<"m">>>>,
       src |-> None,
       remotes |-> <<<<S_o, S_url>>, <<S_p, S_url2>>>>,
       merges |-> Prefix(<<Entry2(S_o, S_main)>> \o MergePool, n),
       shell_commands |-> sh,
       patch_globs |-> Prefix(PatchPool, np),
       target_folder |-> None,
       locales |-> <<>>] :
           n \in 0..(MaxMerges + 1), np \in 0..MaxPatches, sh \in {<<>>, <<<<"c">>>>} }

SectionOdoo ==
    [modules |-> <<>>,
     src |-> Entry2(S_url, S_main),
     remotes |-> <<>>,
     merges |-> <<>>,
     shell_commands |-> <<>>,
     patch_globs |-> <<>>,
     target_folder |-> None,
     locales |-> <<>>]

\* slot "odoo" declares no module, or the module "m" that slot "a" declares too
SectionsOdoo == { SectionOdoo, [SectionOdoo EXCEPT !.modules = <<<<"m">>>>] }

\* the frozen documents: none, or one that pins main of slot "a" to the older commit
FrozenMappings == { {}, { <<"a", { <<S_o, { <<S_main, ShaA>> }>> }>> } }

\* what a refspec resolves to on its remote
RemoteTip(refspec) ==
    IF refspec = S_main THEN ShaB
    ELSE IF refspec = S_pr7 THEN ShaC
    ELSE IF refspec \in {S_dev, S_fix} THEN ShaD
    ELSE refspec

\* the commits a full clone at tip c brings, and a shallow one
History(c) == IF c = ShaB THEN {ShaA, ShaB} ELSE {c}

Detached == <<>>

NoTree ==
    [exists |-> FALSE, dirty |-> FALSE, shallow |-> FALSE, head |-> <<>>,
     cur |-> Detached, branches |-> {}, tracking |-> {}, objects |-> {}]

\* the tree an earlier run without a frozen document left behind for a single
\* reference "o main": a shallow clone of the branch at its tip
EarlierTree(is_dirty) ==
    [exists |-> TRUE, dirty |-> is_dirty, shallow |-> TRUE, head |-> <<ShaB>>,
     cur |-> S_main, branches |-> { <<S_main, <<ShaB>>>> },
     tracking |-> { <<S_o \o <<"/">> \o S_main, <<ShaB>>>> }, objects |-> {ShaB}]

InitialTreesA == { NoTree, EarlierTree(FALSE), EarlierTree(TRUE) }

\* links/<module>: absent, a real directory, or a symlink with the target
\* os.symlink stored in it (a path, as its sequence of components)
NoLink == [kind |-> "absent", target |-> <<>>]
RealDir == [kind |-> "dir", target |-> <<>>]
Symlink(path_src_symlink) == [kind |-> "symlink", target |-> path_src_symlink]

Modules == { <<"m">>, <<"n">> }

\* the directory bl is started in
Cwd == <<<<"/">>, <<"w">>>>

\* self.workdir: Path(".") when spec.yaml is found in the current directory
\* and -w is not given, or an absolute path to the same directory
Workdirs == { <<>>, Cwd }

IsAbsolute(path) == Len(path) > 0 /\ path[1] = <<"/">>

AbsPath(path) == IF IsAbsolute(path) THEN path ELSE Cwd \o path

\* ".." steps back to the parent, never above the root
RECURSIVE Collapse(_, _)
Collapse(walked, rest) ==
    IF Len(rest) = 0 THEN walked
    ELSE IF rest[1] = <<".", ".">>
    THEN Collapse(IF Len(walked) > 1 THEN SubSeq(walked, 1, Len(walked) - 1) ELSE walked,
                  Tail(rest))
    ELSE Collapse(Append(walked, rest[1]), Tail(rest))

\* where the symlink at link_path leads: an absolute target is taken as it
\* is, a relative one is read from the directory that holds the symlink
Resolve(link_path, target) ==
    LET abs == AbsPath(link_path)
        parent == SubSeq(abs, 1, Len(abs) - 1)
    IN  Collapse(<<>>, IF IsAbsolute(target) THEN target ELSE parent \o target)

(***************************************************************************)
(* bl/spec_processor.py: the pure helpers                                  *)
(***************************************************************************)
\* a word of a command line that is not data: no string of characters equals it
Tok(word) == <<word>>

\* str() of an optional string inside an f-string
Str(x) == IF x = None THEN <<"N", "o", "n", "e">> ELSE x

\* str() of a small natural number
NatStr(n) == <<<<"0", "1", "2", "3", "4", "5", "6", "7", "8", "9">>[n + 1]>>

create_clone_args(name, ref_spec_info, remote_url, shallow) ==
    <<Tok("clone"), Tok("--filter=tree:0"), Tok("--sparse")>>
    \o (IF name = "odoo" \/ shallow THEN <<Tok("--depth"), NatStr(1)>> ELSE <<>>)
    \o (IF ref_spec_info.type = "REF"
        THEN <<Tok("--revision"), Str(ref_spec_info.refspec)>>
        ELSE <<Tok("--origin"), ref_spec_info.remote,
               Tok("--branch"), Str(ref_spec_info.refspec)>>)
    \o <<remote_url>>

\* a normalization that keeps the exit code of a merge that printed CONFLICT
normalize_merge_result_keep_ret(ret, out, err) ==
    [ret |-> ret, err |-> out \/ err]

\* the stdout and stderr of merge are modelled by whether they contain CONFLICT
normalize_merge_result(ret, out, err) ==
    IF out THEN [ret |-> -1, err |-> out] ELSE [ret |-> ret, err |-> err]

get_local_ref(origin) ==
    IF origin.type = "PR"
    THEN LET parts == Split(origin.refspec, "/", Len(origin.refspec))
         IN  S_pr \o parts[Len(parts) - 1]
    ELSE S_loc \o Str(origin.refspec)

\* the path of a slot's tree, relative to workdir, as its components
get_module_path(module_name, module_spec) ==
    IF module_name = "odoo" /\ module_spec.target_folder = None
    THEN <<Tok("src")>>
    ELSE IF module_spec.target_folder # None
    THEN <<module_spec.target_folder>>
    ELSE <<Tok("external-src"), Tok(module_name)>>

\* a grouping that opens a group of its own for every descriptor
get_refspec_by_remote_ungrouped(refspec_info_list) ==
    [i \in 1..Len(refspec_info_list) |->
        <<refspec_info_list[i].remote, <<refspec_info_list[i]>>>>]

\* an insertion-ordered dict remote -> descriptors, as a sequence of pairs
RECURSIVE get_refspec_by_remote(_)
get_refspec_by_remote(refspec_info_list) ==
    IF Len(refspec_info_list) = 0 THEN <<>>
    ELSE LET n == Len(refspec_info_list)
             before == get_refspec_by_remote(SubSeq(refspec_info_list, 1, n - 1))
             spec == refspec_info_list[n]
         IN  IF \E i \in 1..Len(before) : before[i][1] = spec.remote
             THEN [i \in 1..Len(before) |->
                      IF before[i][1] = spec.remote
                      THEN <<before[i][1], Append(before[i][2], spec)>>
                      ELSE before[i]]
             ELSE Append(before, <<spec.remote, <<spec>>>>)

\* spec.remotes.get(remote) or remote
RemoteUrl(remotes, remote) ==
    IF \E i \in 1..Len(remotes) : remotes[i][1] = remote /\ remotes[i][2] # <<>>
    THEN remotes[CHOOSE i \in 1..Len(remotes) : remotes[i][1] = remote][2]
    ELSE remote

RECURSIVE FetchMappings(_)
FetchMappings(refspec_info_list) ==
    IF Len(refspec_info_list) = 0 THEN <<>>
    ELSE <<Str(refspec_info_list[1].refspec) \o <<":">> \o get_local_ref(refspec_info_list[1])>>
         \o FetchMappings(Tail(refspec_info_list))

\* the argument vector fetch_multi builds
fetch_multi_args(conc, remote, refspec_info_list) ==
    <<Tok("fetch"), Tok("-j"), NatStr(conc), remote>> \o FetchMappings(refspec_info_list)

Git(argv) == [tool |-> "git", argv |-> argv]
\* the call of link_all_modules, kept in the log with the tool invocations
LinkCall(module_list) == [tool |-> "os", argv |-> <<Tok("symlink")>> \o module_list]
Shell(cmd) == [tool |-> "sh", argv |-> <<cmd>>]

(***************************************************************************)
(* bl/utils.py and the command of bl/freezer.py                            *)
(***************************************************************************)
\* a local ref name made of the refspec alone
utils_get_local_ref_refspec(origin) == S_loc \o Str(origin.refspec)

\* utils.get_local_ref: f"loc-{origin.ref_name or origin.refspec}"
utils_get_local_ref(origin) == S_loc \o Str(OrElse(origin.ref_name, origin.refspec))

\* utils.get_module_path
utils_get_module_path(module_name, module_spec) ==
    IF module_name = "odoo" /\ module_spec.target_folder = None
    THEN <<Tok("src")>>
    ELSE IF module_spec.target_folder # None
    THEN <<module_spec.target_folder>>
    ELSE <<Tok("external-src"), Tok(module_name)>>

\* the argument vector of the rev-list call of freeze_spec
rev_list_args(refspec_info) ==
    <<Tok("rev-list"), Tok("--max-count"), NatStr(1), utils_get_local_ref(refspec_info)>>

(***************************************************************************)
(* git, as far as the engine observes it: what each command does to a      *)
(* tree, and which outcomes it can have.                                   *)
(***************************************************************************)
HexChars == Digits \cup {"a", "b", "c", "d", "e", "f"}

IsCommitId(v) == Len(v) = HexLen /\ \A i \in 1..Len(v) : v[i] \in HexChars

HasRef(refs, name) == \E r \in refs : r[1] = name
RefAt(refs, name) == (CHOOSE r \in refs : r[1] = name)[2]
SetRef(refs, name, commit) == {r \in refs : r[1] # name} \cup {<<name, commit>>}

TrackingName(remote, refspec) == remote \o <<"/">> \o refspec

\* a history h with the commits of c merged in
RECURSIVE Merged(_, _)
Merged(h, c) ==
    IF Len(c) = 0 THEN h
    ELSE IF \E i \in 1..Len(h) : h[i] = c[1]
    THEN Merged(h, Tail(c))
    ELSE Merged(Append(h, c[1]), Tail(c))

\* HEAD and the current branch moved to history h
MoveHead(t, h) ==
    [t EXCEPT !.head = h,
              !.branches = IF t.cur = Detached THEN @ ELSE SetRef(@, t.cur, h)]

\* git clone: the tree a successful clone of the base leaves
ClonedTree(name, spec) ==
    LET root == spec.refspec_info[1]
        tip == RemoteTip(Str(root.refspec))
        shallow == name = "odoo" \/ Len(spec.refspec_info) = 1
        by_rev == root.type = "REF"
    IN  [exists |-> TRUE, dirty |-> FALSE, shallow |-> shallow, head |-> <<tip>>,
         cur |-> IF by_rev THEN Detached ELSE Str(root.refspec),
         branches |-> IF by_rev THEN {} ELSE { <<Str(root.refspec), <<tip>>>> },
         tracking |-> IF by_rev THEN {}
                      ELSE { <<TrackingName(root.remote, Str(root.refspec)), <<tip>>>> },
         objects |-> IF shallow THEN {tip} ELSE History(tip)]

\* git checkout -b <name>: fails when the branch exists
CheckoutNewBranch(t, name) ==
    IF HasRef(t.branches, name) THEN t
    ELSE [t EXCEPT !.branches = SetRef(@, name, t.head), !.cur = name]

\* git checkout <target>: the trees it can leave. A branch or a commit that is
\* present is checked out, unless local changes stand in the way; a commit that
\* is absent is fetched from the promisor remote, which can fail.
CheckoutOutcomes(t, target) ==
    IF HasRef(t.branches, target)
    THEN LET ok == [t EXCEPT !.head = RefAt(t.branches, target), !.cur = target]
         IN  IF t.dirty THEN {ok, t} ELSE {ok}
    ELSE IF IsCommitId(target)
    THEN LET ok == [t EXCEPT !.head = <<target>>, !.cur = Detached,
                             !.objects = @ \cup {target}]
         IN  IF t.dirty \/ target \notin t.objects THEN {ok, t} ELSE {ok}
    ELSE {t}

\* git reset --hard <target>: exit code and tree
ResetHard(t, target) ==
    IF HasRef(t.tracking, target)
    THEN [ret |-> 0, tree |-> [MoveHead(t, RefAt(t.tracking, target)) EXCEPT !.dirty = FALSE]]
    ELSE IF HasRef(t.branches, target)
    THEN [ret |-> 0, tree |-> [MoveHead(t, RefAt(t.branches, target)) EXCEPT !.dirty = FALSE]]
    ELSE [ret |-> 1, tree |-> t]

\* git branch -d <name>: deletes a branch that is merged into HEAD
BranchDelete(t, name) ==
    IF HasRef(t.branches, name) /\ Merged(t.head, RefAt(t.branches, name)) = t.head
    THEN [t EXCEPT !.branches = {r \in @ : r[1] # name}]
    ELSE t

\* git fetch <remote> <refspec>:<local_ref> ... when it succeeds
RECURSIVE Fetched(_, _)
Fetched(t, refspec_info_list) ==
    IF Len(refspec_info_list) = 0 THEN t
    ELSE LET d == refspec_info_list[1]
             tip == RemoteTip(Str(d.refspec))
         IN  Fetched([t EXCEPT !.branches = SetRef(@, get_local_ref(d), <<tip>>),
                               !.objects = @ \cup {tip}],
                     Tail(refspec_info_list))

\* git merge --no-edit <local_ref>: the (exit code, CONFLICT on stdout, CONFLICT
\* on stderr) it can end with
MergeOutcomes(t, local_ref) ==
    IF HasRef(t.branches, local_ref)
    THEN [ret : {0, 1}, out : BOOLEAN, err : BOOLEAN]
    ELSE {[ret |-> 1, out |-> FALSE, err |-> FALSE]}

\* the tree after a merge that exited with ret
MergedTree(t, local_ref, ret) ==
    IF ret = 0 /\ HasRef(t.branches, local_ref)
    THEN MoveHead(t, Merged(t.head, RefAt(t.branches, local_ref)))
    ELSE t

(***************************************************************************)
(* The state.                                                              *)
(***************************************************************************)
VARIABLES
    workdir,         \* SpecProcessor.workdir, as the command line gave it
    data,            \* the spec document: slot -> section
    frozen_mapping,  \* the frozen document
    specs,           \* project_spec.specs: slot -> ModuleSpec
    concurrency,     \* SpecProcessor.concurrency
    semaphore,       \* the free permits of SpecProcessor.semaphore
    worker,          \* slot -> the state of its process_module coroutine
    tree,            \* path -> the git tree on disk
    links,           \* module -> the entry links/<module>
    mainpc,          \* where run() is: "load", "gather", "returned", "exit"
    raised,          \* whether process_project raised
    exit_code,       \* the exit code of the command line
    frz_semaphore,   \* the free permits of frz_semaphore in freeze_project
    freezer,         \* slot -> the state of its freeze_spec coroutine
    frzpc,           \* where a run() with --freeze is: "off", "gather", "exit"
    freeze_runs,     \* the freeze runs that ended: exit code, document written
    previous         \* slot -> HEAD as the run() before this one left it

freeze_vars == <<frz_semaphore, freezer, frzpc, freeze_runs>>

vars == <<workdir, data, frozen_mapping, specs, concurrency, semaphore, worker, tree, links,
          mainpc, raised, exit_code, freeze_vars, previous>>

\* no run() came before this one
NoRun == <<>>

NoSpec ==
    [modules |-> <<>>, remotes |-> <<>>, refspec_info |-> <<>>, shell_commands |-> <<>>,
     patch_globs_to_apply |-> <<>>, target_folder |-> None, locales |-> <<>>]

PathA == <<Tok("external-src"), Tok("a")>>
PathOdoo == <<Tok("src")>>
Paths == {PathA, PathOdoo}

\* self.workdir / "links" / module
LinkPath(wd, module) == wd \o <<Tok("links"), module>>

\* links/ as the earlier run of slot "a" left it
EarlierLinks(wd, modules) ==
    [m \in Modules |->
        IF \E i \in 1..Len(modules) : modules[i] = m
        THEN Symlink(wd \o PathA \o <<m>>)
        ELSE NoLink]

\* links/ before the run: empty, the first or every module of slot "a" kept
\* there as a real directory, or the symlinks of the earlier run
InitialLinks(wd, modules) ==
    { [m \in Modules |-> NoLink],
      [m \in Modules |-> IF m = modules[1] THEN RealDir ELSE NoLink],
      [m \in Modules |->
          IF \E i \in 1..Len(modules) : modules[i] = m THEN RealDir ELSE NoLink],
      EarlierLinks(wd, modules) }

\* ret, out, err of try_merge before any merge ran
NoResult == [ret |-> 0, out |-> FALSE, err |-> FALSE]

NewWorker ==
    [pc |-> "start", idx |-> 0, awaiting |-> FALSE, inflight |-> {}, log |-> <<>>,
     rc |-> 0, ret |-> 0, res |-> NoResult, symlink_modules |-> <<>>, warned |-> {},
     nonzero |-> {}]

\* a warning on the console: what it says and the module it names, if any
Warning(message, module) == [message |-> message, module |-> module]

\* spec_parser.py line 205: a three-part merge entry is deprecated
parser_warnings(section_data) ==
    IF \E i \in 1..Len(section_data.merges) :
           Len(Split(section_data.merges[i], " ", MergeMaxSplit)) = 3
    THEN { Warning("Deprecated src format", None) }
    ELSE {}

\* spec_processor.py line 104: "odoo" without target_folder is deprecated
module_path_warnings(module_name, module_spec) ==
    IF module_name = "odoo" /\ module_spec.target_folder = None
    THEN { Warning("importing 'odoo' without a 'target_folder'", None) }
    ELSE {}

\* freeze_spec before it started: result[module_name] is empty
NewFreezer == [pc |-> "start", idx |-> 0, awaiting |-> FALSE, result |-> {}, seq |-> 0]

\* no run() with --freeze has been started
FreezerOff ==
    /\ frz_semaphore = 0
    /\ freezer = [s \in Slots |-> NewFreezer]
    /\ frzpc = "off"
    /\ freeze_runs = <<>>

\* before run(): the documents are written, the disk is as earlier runs left it
Init ==
    /\ workdir = <<>>
    /\ data \in [Slots -> SectionsA \cup {SectionOdoo}]
    /\ data["a"] \in SectionsA
    /\ data["odoo"] = SectionOdoo
    /\ frozen_mapping \in FrozenMappings
    /\ specs = [s \in Slots |-> NoSpec]
    /\ concurrency \in 1..MaxConcurrency
    /\ semaphore = concurrency
    /\ worker = [s \in Slots |-> NewWorker]
    /\ tree \in [Paths -> InitialTreesA]
    /\ tree[PathOdoo] = NoTree
    /\ links \in InitialLinks(workdir, data["a"].modules)
    /\ (links = EarlierLinks(workdir, data["a"].modules)) = tree[PathA].exists
    /\ mainpc = "load"
    /\ raised = FALSE
    /\ exit_code = 0
    /\ FreezerOff
    /\ previous = NoRun

SpecOf(s) == specs[s]
Refs(s) == specs[s].refspec_info
Root(s) == specs[s].refspec_info[1]
PathOf(s) == get_module_path(s, specs[s])
TreeOf(s) == tree[PathOf(s)]

\* run(), line 26: the documents are loaded
LoadSpec ==
    /\ mainpc = "load"
    /\ specs' = load_spec_file(data, frozen_mapping)
    /\ worker' = [s \in Slots |-> [worker[s] EXCEPT !.warned = parser_warnings(data[s])]]
    /\ mainpc' = "gather"
    /\ UNCHANGED <<workdir, previous, freeze_vars, data, frozen_mapping, concurrency, semaphore, tree, links,
                   raised, exit_code>>

(***************************************************************************)
(* process_module: where the coroutine goes next                           *)
(***************************************************************************)
At(w, pc, idx) == [w EXCEPT !.pc = pc, !.idx = idx]

\* the await of a subprocess returned
Returned(w) == [w EXCEPT !.awaiting = FALSE, !.inflight = {}]

\* the await of the subprocess of site w.pc returned; nonzero keeps the sites
\* whose subprocess exited with a code other than 0
Exited(w, ok) == [Returned(w) EXCEPT !.nonzero = IF ok THEN @ ELSE @ \cup {w.pc}]

\* line 434: nothing is left but the links
ToLink(s, w) == At(w, "link", 0)

\* line 425: the patch globs
ToPatches(s, w) ==
    IF specs[s].patch_globs_to_apply # <<>> THEN At(w, "am", 1) ELSE ToLink(s, w)

\* line 420: the shell commands
ToShell(s, w) ==
    IF specs[s].shell_commands # <<>> THEN At(w, "shell", 1) ELSE ToPatches(s, w)

\* a merge loop that takes the descriptor before the next one, the base included
ToMerge_base_too(s, w, i) ==
    IF i - 1 <= Len(Refs(s)) THEN At(w, "merge", i - 1) ELSE ToShell(s, w)

\* line 412: the loop over refspec_info[1:]; i is the index of the next descriptor
ToMerge(s, w, i) ==
    IF i <= Len(Refs(s)) THEN At(w, "merge", i) ELSE ToShell(s, w)

\* a merge loop over refspec_info in the place of refspec_info[1:]
ToFetch_merge_base(s, w, i) ==
    IF i <= Len(get_refspec_by_remote(Tail(Refs(s)))) THEN At(w, "fetch_multi", i)
    ELSE ToMerge(s, w, 1)

\* line 407: the loop over refspec_by_remote; i is the index of the next group
ToFetch(s, w, i) ==
    IF i <= Len(get_refspec_by_remote(Tail(Refs(s)))) THEN At(w, "fetch_multi", i)
    ELSE ToMerge(s, w, 2)

\* line 397: the loop over spec.remotes; i is the index of the next remote
ToRemotes(s, w, i) ==
    IF i <= Len(specs[s].remotes) THEN At(w, "remote_add", i) ELSE ToFetch(s, w, 1)

\* line 378: after setup_new_repo or reset_repo_for_work, whatever they returned
ToSparse(s, w) ==
    IF s # "odoo" THEN At(w, "sparse_init", 0) ELSE At(w, "checkout", 0)

\* line 264: the loop over refspec_info[1:] that deletes the local branches
ToBranchDelete(s, w, i) ==
    IF i <= Len(Refs(s)) THEN At(w, "branch_d", i) ELSE ToSparse(s, w)

(***************************************************************************)
(* process_module: the tool invocations                                    *)
(***************************************************************************)
RECURSIVE PathStr(_)
PathStr(path) ==
    IF Len(path) = 0 THEN <<>>
    ELSE IF Len(path) = 1 THEN path[1]
    ELSE path[1] \o <<"/">> \o PathStr(Tail(path))

GitSites ==
    {"clone", "checkout_b", "status", "is_shallow", "unshallow", "reset", "branch_d",
     "sparse_init", "sparse_set", "checkout", "remote_add", "config_filter",
     "config_promisor", "fetch_multi", "merge", "merge_abort", "shell_am_abort", "am",
     "am_abort"}

\* the git command the coroutine of slot s is about to run
CommandAt(s) ==
    LET w == worker[s]
        spec == specs[s]
        root == Root(s)
        i == w.idx
        groups == get_refspec_by_remote(Tail(Refs(s)))
    IN  CASE w.pc = "clone" ->
               Git(create_clone_args(s, root, RemoteUrl(spec.remotes, root.remote),
                                     Len(Refs(s)) = 1)
                   \o <<PathStr(PathOf(s))>>)
          [] w.pc = "checkout_b" ->
               Git(<<Tok("checkout"), Tok("-b"),
                     OrElse(root.ref_name, SubSeq(Str(root.refspec), 1, ShortLen))>>)
          [] w.pc = "status" -> Git(<<Tok("status"), Tok("--porcelain")>>)
          [] w.pc = "is_shallow" -> Git(<<Tok("rev-parse"), Tok("--is-shallow-repository")>>)
          [] w.pc = "unshallow" -> Git(<<Tok("fetch"), Tok("--unshallow")>>)
          [] w.pc = "reset" ->
               Git(<<Tok("reset"), Tok("--hard"),
                     TrackingName(root.remote, Str(root.refspec))>>)
          [] w.pc = "branch_d" ->
               Git(<<Tok("branch"), Tok("-d"), get_local_ref(Refs(s)[i])>>)
          [] w.pc = "sparse_init" -> Git(<<Tok("sparse-checkout"), Tok("init"), Tok("--cone")>>)
          [] w.pc = "sparse_set" -> Git(<<Tok("sparse-checkout"), Tok("set")>> \o spec.modules)
          [] w.pc = "checkout" -> Git(<<Tok("checkout"), Str(root.refspec)>>)
          [] w.pc = "remote_add" ->
               Git(<<Tok("remote"), Tok("add"), spec.remotes[i][1], spec.remotes[i][2]>>)
          [] w.pc = "config_filter" ->
               Git(<<Tok("config"), Tok("partialCloneFilter"), spec.remotes[i][1], Tok("tree:0")>>)
          [] w.pc = "config_promisor" ->
               Git(<<Tok("config"), Tok("promisor"), spec.remotes[i][1], Tok("true")>>)
          [] w.pc = "fetch_multi" ->
               Git(CHOOSE args \in { fetch_multi_args(concurrency, group[1], group[2]) :
                                         group \in {groups[i]} } : TRUE)
          [] w.pc = "merge" ->
               Git(<<Tok("merge"), Tok("--no-edit"), get_local_ref(Refs(s)[i])>>)
          [] w.pc = "merge_abort" -> Git(<<Tok("merge"), Tok("--abort")>>)
          [] w.pc = "shell_am_abort" -> Git(<<Tok("am"), Tok("--abort")>>)
          [] w.pc = "am" -> Git(<<Tok("am"), spec.patch_globs_to_apply[i]>>)
          [] w.pc = "am_abort" -> Git(<<Tok("am"), Tok("--abort")>>)

\* a return that leaves the async with block without releasing the semaphore
Leave_keep_permit(s, w, rc) ==
    /\ worker' = [worker EXCEPT ![s] = [Returned(w) EXCEPT !.pc = "done", !.rc = rc]]
    /\ semaphore' = semaphore

\* the coroutine of slot s leaves process_module with return code rc: the
\* semaphore is released by the async with
Leave(s, w, rc) ==
    /\ worker' = [worker EXCEPT ![s] = [Returned(w) EXCEPT !.pc = "done", !.rc = rc]]
    /\ semaphore' = semaphore + 1

\* the coroutine of slot s goes on as w2, its tree now t2
Continue(s, w2, t2) ==
    /\ worker' = [worker EXCEPT ![s] = w2]
    /\ tree' = [tree EXCEPT ![PathOf(s)] = t2]
    /\ UNCHANGED <<workdir, previous, freeze_vars, data, frozen_mapping, specs, concurrency, semaphore, links, mainpc,
                   raised, exit_code>>

\* the coroutine of slot s returns rc, its tree now t2
Return(s, w, rc, t2) ==
    /\ Leave(s, w, rc)
    /\ tree' = [tree EXCEPT ![PathOf(s)] = t2]
    /\ UNCHANGED <<workdir, previous, freeze_vars, data, frozen_mapping, specs, concurrency, links, mainpc, raised,
                   exit_code>>

\* a fetch_multi that is started and not awaited while groups are left
Spawn_fetch_not_awaited(s, command, needs_cwd) ==
    LET w == worker[s] IN
    IF needs_cwd /\ ~TreeOf(s).exists
    THEN Return(s, w, -1, TreeOf(s))
    ELSE IF w.pc = "fetch_multi" /\ w.idx < Len(get_refspec_by_remote(Tail(Refs(s))))
    THEN Continue(s, [w EXCEPT !.inflight = @ \cup {command},
                               !.log = Append(@, command),
                               !.idx = @ + 1],
                  TreeOf(s))
    ELSE Continue(s, [w EXCEPT !.awaiting = TRUE,
                               !.inflight = @ \cup {command},
                               !.log = Append(@, command)],
                  TreeOf(s))

\* create_subprocess_exec/_shell: the child is started in cwd; a cwd that does
\* not exist raises, and the except clause of process_module returns -1
Spawn(s, command, needs_cwd) ==
    LET w == worker[s] IN
    IF needs_cwd /\ ~TreeOf(s).exists
    THEN Return(s, w, -1, TreeOf(s))
    ELSE Continue(s, [w EXCEPT !.awaiting = TRUE,
                               !.inflight = @ \cup {command},
                               !.log = Append(@, command)],
                  TreeOf(s))

\* run_git up to its await: the git child is started
run_git(s) ==
    /\ worker[s].pc \in GitSites
    /\ ~worker[s].awaiting
    /\ \E command \in {CommandAt(s)} : Spawn(s, command, worker[s].pc # "clone")

\* run_shell_commands up to its await: the shell child is started
run_shell_commands(s) ==
    /\ worker[s].pc = "shell"
    /\ ~worker[s].awaiting
    /\ Spawn(s, Shell(specs[s].shell_commands[worker[s].idx]), TRUE)

\* the await at site pc of slot s is over
Awaited(s, pc) == worker[s].pc = pc /\ worker[s].awaiting

(***************************************************************************)
(* process_module: from the start to the first tool invocation             *)
(***************************************************************************)
filter_non_link_module(spec) ==
    SelectSeq(spec.modules, LAMBDA module : links[module].kind # "dir")

\* line 346: the message printed for each module the filter drops
filter_warnings(spec) ==
    { Warning("Watchout", spec.modules[i]) :
          i \in { j \in 1..Len(spec.modules) : links[spec.modules[j]].kind = "dir" } }

\* a semaphore that never blocks
CanAcquire_always(value) == TRUE

\* asyncio.Semaphore: a permit can be taken when one is free
CanAcquire(value) == value > 0

\* a process_module that returns 0 for a slot without references
Enter_no_references_ok(s, w) ==
    /\ IF Refs(s) = <<>>
       THEN /\ worker' = [worker EXCEPT ![s] = [w EXCEPT !.pc = "done", !.rc = 0]]
            /\ semaphore' = semaphore
       ELSE /\ worker' = [worker EXCEPT ![s] =
                             At([w EXCEPT !.warned = @ \cup module_path_warnings(s, specs[s])],
                                IF ~TreeOf(s).exists THEN "clone" ELSE "status", 0)]
            /\ semaphore' = semaphore - 1
    /\ UNCHANGED <<workdir, previous, freeze_vars, data, frozen_mapping, specs, concurrency, tree, links, mainpc, raised,
                   exit_code>>

\* line 360 to 376: the semaphore is taken; no references returns -1 at once,
\* otherwise the path decides between setup_new_repo and reset_repo_for_work
Enter(s, w) ==
    /\ IF Refs(s) = <<>>
       THEN /\ worker' = [worker EXCEPT ![s] = [w EXCEPT !.pc = "done", !.rc = -1]]
            /\ semaphore' = semaphore
       ELSE /\ worker' = [worker EXCEPT ![s] =
                             At([w EXCEPT !.warned = @ \cup module_path_warnings(s, specs[s])],
                                IF ~TreeOf(s).exists THEN "clone" ELSE "status", 0)]
            /\ semaphore' = semaphore - 1
    /\ UNCHANGED <<workdir, previous, freeze_vars, data, frozen_mapping, specs, concurrency, tree, links, mainpc, raised,
                   exit_code>>

\* the task of slot s starts: tasks start in the order gather got them
begin(s) ==
    /\ mainpc = "gather"
    /\ worker[s].pc = "start"
    /\ \A e \in Slots : SlotIndex(e) < SlotIndex(s) => worker[e].pc # "start"
    /\ LET w == [worker[s] EXCEPT !.symlink_modules = filter_non_link_module(specs[s]),
                                  !.warned = @ \cup filter_warnings(specs[s])]
       IN  IF CanAcquire(semaphore)
           THEN Enter(s, w)
           ELSE Continue(s, At(w, "acquire", 0), TreeOf(s))

\* a task that waited for the semaphore gets a permit
acquire(s) ==
    /\ worker[s].pc = "acquire"
    /\ CanAcquire(semaphore)
    /\ Enter(s, worker[s])

(***************************************************************************)
(* setup_new_repo and clone_base_repo_ref                                  *)
(***************************************************************************)
\* clone returned; a REF base goes on to checkout -b whatever clone returned
clone_done(s) ==
    /\ Awaited(s, "clone")
    /\ \E ok \in BOOLEAN :
          LET w == Exited(worker[s], ok)
              t2 == IF ok THEN ClonedTree(s, specs[s]) ELSE TreeOf(s)
          IN  IF Root(s).type = "REF"
              THEN Continue(s, At(w, "checkout_b", 0), t2)
              ELSE Continue(s, ToSparse(s, w), t2)

\* checkout -b returned; setup_new_repo's return value is dropped at line 374
checkout_b_done(s) ==
    /\ Awaited(s, "checkout_b")
    /\ Continue(s, ToSparse(s, Returned(worker[s])),
                CheckoutNewBranch(TreeOf(s),
                                  OrElse(Root(s).ref_name,
                                         SubSeq(Str(Root(s).refspec), 1, ShortLen))))

(***************************************************************************)
(* reset_repo_for_work                                                     *)
(***************************************************************************)
\* status --porcelain returned: a dirty tree returns at line 247, and the
\* return value is dropped at line 376
status_done(s) ==
    /\ Awaited(s, "status")
    /\ LET w == Returned(worker[s])
       IN  IF TreeOf(s).dirty
           THEN Continue(s, ToSparse(s, w), TreeOf(s))
           ELSE Continue(s, At(w, "is_shallow", 0), TreeOf(s))

is_shallow_done(s) ==
    /\ Awaited(s, "is_shallow")
    /\ LET w == Returned(worker[s])
       IN  IF Len(Refs(s)) > 1 /\ TreeOf(s).shallow
           THEN Continue(s, At(w, "unshallow", 0), TreeOf(s))
           ELSE Continue(s, At(w, "reset", 0), TreeOf(s))

unshallow_done(s) ==
    /\ Awaited(s, "unshallow")
    /\ \E ok \in BOOLEAN :
          Continue(s, At(Returned(worker[s]), "reset", 0),
                   IF ok THEN [TreeOf(s) EXCEPT !.shallow = FALSE,
                                                !.objects = @ \cup {ShaA}]
                   ELSE TreeOf(s))

\* reset --hard returned: a failure returns at line 262, dropped at line 376
reset_done(s) ==
    /\ Awaited(s, "reset")
    /\ LET r == ResetHard(TreeOf(s), TrackingName(Root(s).remote, Str(Root(s).refspec)))
           w == Exited(worker[s], r.ret = 0)
       IN  IF r.ret # 0
           THEN Continue(s, ToSparse(s, w), r.tree)
           ELSE Continue(s, ToBranchDelete(s, w, 2), r.tree)

branch_d_done(s) ==
    /\ Awaited(s, "branch_d")
    /\ LET w == Returned(worker[s])
       IN  Continue(s, ToBranchDelete(s, w, w.idx + 1),
                    BranchDelete(TreeOf(s), get_local_ref(Refs(s)[w.idx])))

(***************************************************************************)
(* process_module: sparse checkout, checkout, remotes, fetch               *)
(***************************************************************************)
sparse_init_done(s) ==
    /\ Awaited(s, "sparse_init")
    /\ LET w == Returned(worker[s])
       IN  IF w.symlink_modules # <<>>
           THEN Continue(s, At(w, "sparse_set", 0), TreeOf(s))
           ELSE Continue(s, At(w, "checkout", 0), TreeOf(s))

sparse_set_done(s) ==
    /\ Awaited(s, "sparse_set")
    /\ Continue(s, At(Returned(worker[s]), "checkout", 0), TreeOf(s))

\* checkout of the base refspec returned; its exit code is not looked at
checkout_done(s) ==
    /\ Awaited(s, "checkout")
    /\ \E t2 \in CheckoutOutcomes(TreeOf(s), Str(Root(s).refspec)) :
          Continue(s, ToRemotes(s, Returned(worker[s]), 1), t2)

remote_add_done(s) ==
    /\ Awaited(s, "remote_add")
    /\ Continue(s, At(Returned(worker[s]), "config_filter", worker[s].idx), TreeOf(s))

config_filter_done(s) ==
    /\ Awaited(s, "config_filter")
    /\ Continue(s, At(Returned(worker[s]), "config_promisor", worker[s].idx), TreeOf(s))

config_promisor_done(s) ==
    /\ Awaited(s, "config_promisor")
    /\ Continue(s, ToRemotes(s, Returned(worker[s]), worker[s].idx + 1), TreeOf(s))

\* fetch_multi returned; line 409 does not look at what it returned
fetch_multi_done(s) ==
    /\ Awaited(s, "fetch_multi")
    /\ \E ok \in BOOLEAN :
          LET w == Exited(worker[s], ok)
              group == get_refspec_by_remote(Tail(Refs(s)))[w.idx][2]
          IN  Continue(s, ToFetch(s, w, w.idx + 1),
                       IF ok THEN Fetched(TreeOf(s), group) ELSE TreeOf(s))

(***************************************************************************)
(* merge_spec_into_tree and try_merge                                      *)
(***************************************************************************)
\* merge returned: try_merge normalizes, aborts on CONFLICT and returns ret;
\* merge_spec_into_tree and line 416 return -1 when ret is not 0
merge_done(s) ==
    /\ Awaited(s, "merge")
    /\ \E local_ref \in {get_local_ref(Refs(s)[worker[s].idx])} :
       \E o \in MergeOutcomes(TreeOf(s), local_ref) :
       \E t2 \in {MergedTree(TreeOf(s), local_ref, o.ret)} :
          LET w == [Exited(worker[s], o.ret = 0) EXCEPT !.res = o]
              n == normalize_merge_result(o.ret, o.out, o.err)
          IN  IF n.err
              THEN Continue(s, [At(w, "merge_abort", w.idx) EXCEPT !.ret = n.ret], t2)
              ELSE IF n.ret # 0
              THEN Return(s, w, -1, t2)
              ELSE Continue(s, ToMerge(s, w, w.idx + 1), t2)

\* merge --abort returned: try_merge returns the ret it had
merge_abort_done(s) ==
    /\ Awaited(s, "merge_abort")
    /\ LET w == Returned(worker[s])
       IN  IF w.ret # 0
           THEN Return(s, w, -1, TreeOf(s))
           ELSE Continue(s, ToMerge(s, w, w.idx + 1), TreeOf(s))

(***************************************************************************)
(* run_shell_commands and the patch globs                                  *)
(***************************************************************************)
shell_done(s) ==
    /\ Awaited(s, "shell")
    /\ \E ok \in BOOLEAN :
          LET w == Exited(worker[s], ok)
          IN  IF ~ok
              THEN Continue(s, At(w, "shell_am_abort", w.idx), TreeOf(s))
              ELSE IF w.idx < Len(specs[s].shell_commands)
              THEN Continue(s, At(w, "shell", w.idx + 1), TreeOf(s))
              ELSE Continue(s, ToPatches(s, w), TreeOf(s))

shell_am_abort_done(s) ==
    /\ Awaited(s, "shell_am_abort")
    /\ Return(s, worker[s], -1, TreeOf(s))

\* git am <glob> returned
am_done(s) ==
    /\ Awaited(s, "am")
    /\ \E ok \in BOOLEAN :
          LET w == Exited(worker[s], ok)
              glob == specs[s].patch_globs_to_apply[w.idx]
          IN  IF ~ok
              THEN Continue(s, [At(w, "am_abort", w.idx) EXCEPT !.ret = 1], TreeOf(s))
              ELSE IF w.idx < Len(specs[s].patch_globs_to_apply)
              THEN Continue(s, At(w, "am", w.idx + 1), MoveHead(TreeOf(s), Append(TreeOf(s).head, glob)))
              ELSE Continue(s, ToLink(s, w), MoveHead(TreeOf(s), Append(TreeOf(s).head, glob)))

am_abort_done(s) ==
    /\ Awaited(s, "am_abort")
    /\ Return(s, worker[s], worker[s].ret, TreeOf(s))

(***************************************************************************)
(* link_all_modules                                                        *)
(***************************************************************************)
\* the loop over module_list: a symlink is unlinked, os.symlink raises when
\* the entry is still there
RECURSIVE link_all_modules(_, _, _)
link_all_modules(module_list, module_path, lk) ==
    IF Len(module_list) = 0 THEN [ret |-> 0, links |-> lk]
    ELSE LET module_name == module_list[1]
             path_src_symlink == module_path \o <<module_name>>
         IN  IF lk[module_name].kind = "dir"
             THEN [ret |-> -1, links |-> lk]
             ELSE link_all_modules(Tail(module_list), module_path,
                                   [lk EXCEPT ![module_name] = Symlink(path_src_symlink)])

\* line 434 to 448: the links are published and the coroutine returns
link(s) ==
    /\ worker[s].pc = "link"
    /\ ~worker[s].awaiting
    /\ LET r == link_all_modules(worker[s].symlink_modules,
                                 workdir \o get_module_path(s, specs[s]), links)
       IN  /\ links' = r.links
           /\ Leave(s, [worker[s] EXCEPT !.log = Append(@, LinkCall(worker[s].symlink_modules))],
                    r.ret)
    /\ UNCHANGED <<workdir, previous, freeze_vars, data, frozen_mapping, specs, concurrency, tree, mainpc, raised, exit_code>>

(***************************************************************************)
(* process_project and run                                                 *)
(***************************************************************************)
\* a gather that returns with the first failure
Gathered_first_failure ==
    \/ \A s \in Slots : worker[s].pc = "done"
    \/ \E s \in Slots : worker[s].pc = "done" /\ worker[s].rc # 0

\* asyncio.gather: the return codes are there once every task has returned
Gathered == \A s \in Slots : worker[s].pc = "done"

\* all(return_codes) in the place of any(return_codes)
AnyReturnCode_all == \A s \in Slots : worker[s].rc # 0

\* any(return_codes)
AnyReturnCode == \E s \in Slots : worker[s].rc # 0

\* line 491 to 493: process_project returns, or raises
process_project ==
    /\ mainpc = "gather"
    /\ Gathered
    /\ raised' = AnyReturnCode
    /\ mainpc' = "returned"
    /\ UNCHANGED <<workdir, previous, freeze_vars, data, frozen_mapping, specs, concurrency, semaphore, worker, tree, links,
                   exit_code>>

\* the exit code run() ends with: sys.exit(1) in the except clause
ExitCodeOf(has_raised) == IF has_raised THEN 1 ELSE 0

\* __main__.run, line 30 to 36
run ==
    /\ mainpc = "returned"
    /\ exit_code' = ExitCodeOf(raised)
    /\ mainpc' = "exit"
    /\ UNCHANGED <<workdir, previous, freeze_vars, data, frozen_mapping, specs, concurrency, semaphore, worker, tree, links,
                   raised>>

\* the steps of the coroutine of slot s
WorkerStep(s) ==
    \/ begin(s) \/ acquire(s) \/ run_git(s) \/ run_shell_commands(s)
    \/ clone_done(s) \/ checkout_b_done(s) \/ status_done(s) \/ is_shallow_done(s)
    \/ unshallow_done(s) \/ reset_done(s) \/ branch_d_done(s) \/ sparse_init_done(s)
    \/ sparse_set_done(s) \/ checkout_done(s) \/ remote_add_done(s)
    \/ config_filter_done(s) \/ config_promisor_done(s) \/ fetch_multi_done(s)
    \/ merge_done(s) \/ merge_abort_done(s) \/ shell_done(s) \/ shell_am_abort_done(s)
    \/ am_done(s) \/ am_abort_done(s) \/ link(s)

Next ==
    \/ LoadSpec
    \/ \E s \in Slots : begin(s)
    \/ \E s \in Slots : acquire(s)
    \/ \E s \in Slots : run_git(s)
    \/ \E s \in Slots : run_shell_commands(s)
    \/ \E s \in Slots : clone_done(s)
    \/ \E s \in Slots : checkout_b_done(s)
    \/ \E s \in Slots : status_done(s)
    \/ \E s \in Slots : is_shallow_done(s)
    \/ \E s \in Slots : unshallow_done(s)
    \/ \E s \in Slots : reset_done(s)
    \/ \E s \in Slots : branch_d_done(s)
    \/ \E s \in Slots : sparse_init_done(s)
    \/ \E s \in Slots : sparse_set_done(s)
    \/ \E s \in Slots : checkout_done(s)
    \/ \E s \in Slots : remote_add_done(s)
    \/ \E s \in Slots : config_filter_done(s)
    \/ \E s \in Slots : config_promisor_done(s)
    \/ \E s \in Slots : fetch_multi_done(s)
    \/ \E s \in Slots : merge_done(s)
    \/ \E s \in Slots : merge_abort_done(s)
    \/ \E s \in Slots : shell_done(s)
    \/ \E s \in Slots : shell_am_abort_done(s)
    \/ \E s \in Slots : am_done(s)
    \/ \E s \in Slots : am_abort_done(s)
    \/ \E s \in Slots : link(s)
    \/ process_project
    \/ run

Spec == Init /\ [][Next]_vars

(***************************************************************************)
(* bl/freezer.py: run() with --freeze, started once the assembly process   *)
(* has ended; what is left of the assembly is the disk and its exit code.  *)
(***************************************************************************)
\* at most MaxFreezes runs with --freeze follow an assembly
MaxFreezes == 2

\* d[k] = v on a dict given as a set of <<key, value>> pairs
DictSet(d, k, v) == {e \in d : e[1] # k} \cup {<<k, v>>}

\* the commit a history ends with
Newest(h) == h[Len(h)]

\* git rev-list --max-count 1 <ref>: exit code and stripped stdout
RevList(t, ref) ==
    IF HasRef(t.branches, ref)
    THEN [ret |-> 0, out |-> Newest(RefAt(t.branches, ref))]
    ELSE [ret |-> 128, out |-> <<>>]

\* freeze_spec, line 32 to 36: out is stored under remote and ref_name or refspec
Recorded(result, refspec_info, out) ==
    LET ref_name == OrElse(refspec_info.ref_name, refspec_info.refspec)
        remote_data == IF DictHas(result, refspec_info.remote)
                       THEN DictGet(result, refspec_info.remote)
                       ELSE {}
    IN  DictSet(result, refspec_info.remote, DictSet(remote_data, ref_name, out))

FrzPathOf(s) == utils_get_module_path(s, specs[s])

\* yaml.dump sorts the keys: the document is the mapping, whatever the order
\* the slots were inserted in
yaml_dump(freeze_data) == {freeze_data[i] : i \in 1..Len(freeze_data)}

\* the freeze_spec coroutine of slot s goes on as f2
FrzContinue(s, f2, sem2) ==
    /\ freezer' = [freezer EXCEPT ![s] = f2]
    /\ frz_semaphore' = sem2
    /\ UNCHANGED <<workdir, previous, data, frozen_mapping, specs, concurrency, semaphore, worker, tree,
                   links, mainpc, raised, exit_code, frzpc, freeze_runs>>

\* the number of freeze_spec coroutines that have ended
FrzEnded == Cardinality({e \in Slots : freezer[e].pc \in {"done", "raised"}})

\* the coroutine leaves async with sem and ends
FrzLeave(s, f, pc, sem) ==
    FrzContinue(s, [f EXCEPT !.pc = pc, !.awaiting = FALSE, !.seq = FrzEnded + 1], sem)

\* __main__.run, line 26 to 32: a new process loads the documents and enters
\* freeze_project with the concurrency of its command line
freeze_run ==
    /\ mainpc = "exit"
    /\ frzpc \in {"off", "exit"}
    /\ Len(freeze_runs) < MaxFreezes
    /\ specs' = load_spec_file(data, frozen_mapping)
    /\ worker' = [s \in Slots |-> [NewWorker EXCEPT !.warned = parser_warnings(data[s])]]
    /\ frz_semaphore' \in 1..MaxConcurrency
    /\ freezer' = [s \in Slots |-> NewFreezer]
    /\ frzpc' = "gather"
    /\ UNCHANGED <<workdir, previous, data, frozen_mapping, concurrency, semaphore, tree, links, mainpc,
                   raised, exit_code, freeze_runs>>

\* line 25 to 28: the permit is taken; a slot with no reference has nothing to
\* resolve and leaves at once
FrzEnter(s, f) ==
    IF Refs(s) = <<>>
    THEN FrzLeave(s, f, "done", frz_semaphore)
    ELSE FrzContinue(s, [f EXCEPT !.pc = "rev_list", !.idx = 1], frz_semaphore - 1)

\* the freeze_spec task of slot s starts: tasks start in the order of gather
frz_begin(s) ==
    /\ frzpc = "gather"
    /\ freezer[s].pc = "start"
    /\ \A e \in Slots : SlotIndex(e) < SlotIndex(s) => freezer[e].pc # "start"
    /\ IF CanAcquire(frz_semaphore)
       THEN FrzEnter(s, freezer[s])
       ELSE FrzContinue(s, [freezer[s] EXCEPT !.pc = "acquire"], frz_semaphore)

\* a freeze_spec task that waited for the semaphore gets a permit
frz_acquire(s) ==
    /\ frzpc = "gather"
    /\ freezer[s].pc = "acquire"
    /\ CanAcquire(frz_semaphore)
    /\ FrzEnter(s, freezer[s])

\* utils.run_git up to its await: rev-list is started in the slot's tree; a
\* tree that does not exist raises, and nothing in freeze_spec catches it
frz_run_git(s) ==
    /\ frzpc = "gather"
    /\ freezer[s].pc = "rev_list"
    /\ ~freezer[s].awaiting
    /\ IF tree[FrzPathOf(s)].exists
       THEN FrzContinue(s, [freezer[s] EXCEPT !.awaiting = TRUE], frz_semaphore)
       ELSE FrzLeave(s, freezer[s], "raised", frz_semaphore + 1)

\* line 30 to 37: rev-list returned; its output is stored whatever it is
rev_list_done(s) ==
    /\ frzpc = "gather"
    /\ freezer[s].pc = "rev_list"
    /\ freezer[s].awaiting
    /\ LET f == freezer[s]
           refspec_info == Refs(s)[f.idx]
           r == RevList(tree[FrzPathOf(s)], rev_list_args(refspec_info)[4])
           f2 == [f EXCEPT !.result = Recorded(@, refspec_info, r.out)]
       IN  IF f.idx < Len(Refs(s))
           THEN FrzContinue(s, [f2 EXCEPT !.idx = @ + 1, !.awaiting = FALSE], frz_semaphore)
           ELSE FrzLeave(s, f2, "done", frz_semaphore + 1)

\* the slots in the order their freeze_spec coroutines ended
CompletionOrder ==
    [i \in 1..Cardinality(Slots) |-> CHOOSE s \in Slots : freezer[s].seq = i]

\* line 72 to 80: gather returns the results in the order of the tasks, the
\* document is dumped; the file written may be the one the loader reads
freeze_project ==
    /\ frzpc = "gather"
    /\ \A s \in Slots : freezer[s].pc = "done"
    /\ LET freeze_data == [i \in 1..Len(SlotOrder) |->
                              <<SlotOrder[i], freezer[SlotOrder[i]].result>>]
           document == yaml_dump(freeze_data)
       IN  /\ freeze_runs' = Append(freeze_runs,
                                    [exit_code |-> 0, written |-> TRUE,
                                     document |-> document,
                                     order |-> CompletionOrder])
           /\ frozen_mapping' \in {frozen_mapping, document}
    /\ frzpc' = "exit"
    /\ UNCHANGED <<workdir, previous, data, specs, concurrency, semaphore, worker, tree, links, mainpc,
                   raised, exit_code, frz_semaphore, freezer>>

\* a freeze_spec task raised: gather raises, asyncio.run cancels the tasks that
\* are left, run() exits with 1 and no document is written
freeze_raised ==
    /\ frzpc = "gather"
    /\ \E s \in Slots : freezer[s].pc = "raised"
    /\ freeze_runs' = Append(freeze_runs,
                             [exit_code |-> 1, written |-> FALSE, document |-> {},
                              order |-> <<>>])
    /\ freezer' = [s \in Slots |->
                      IF freezer[s].pc \in {"done", "raised"} THEN freezer[s]
                      ELSE [freezer[s] EXCEPT !.pc = "cancelled", !.awaiting = FALSE]]
    /\ frzpc' = "exit"
    /\ UNCHANGED <<workdir, previous, data, frozen_mapping, specs, concurrency, semaphore, worker, tree,
                   links, mainpc, raised, exit_code, frz_semaphore>>

NextFreeze ==
    \/ Next
    \/ freeze_run
    \/ \E s \in Slots : frz_begin(s)
    \/ \E s \in Slots : frz_acquire(s)
    \/ \E s \in Slots : frz_run_git(s)
    \/ \E s \in Slots : rev_list_done(s)
    \/ freeze_project
    \/ freeze_raised

\* before the assembly that precedes the freeze runs: slot "a" declares every
\* feature and any number of merges, the assembly runs its tasks one at a
\* time; the freeze runs choose their own concurrency
InitFreeze ==
    /\ workdir = <<>>
    /\ data \in [Slots -> SectionsA \cup {SectionOdoo}]
    /\ data["a"] \in SectionsA
    /\ Len(data["a"].patch_globs) = MaxPatches
    /\ data["a"].shell_commands # <<>>
    /\ data["odoo"] = SectionOdoo
    /\ frozen_mapping \in FrozenMappings
    /\ specs = [s \in Slots |-> NoSpec]
    /\ concurrency = 1
    /\ semaphore = concurrency
    /\ worker = [s \in Slots |-> NewWorker]
    /\ tree \in [Paths -> InitialTreesA]
    /\ tree[PathOdoo] = NoTree
    /\ links \in InitialLinks(workdir, data["a"].modules)
    /\ (links = EarlierLinks(workdir, data["a"].modules)) = tree[PathA].exists
    /\ mainpc = "load"
    /\ raised = FALSE
    /\ exit_code = 0
    /\ FreezerOff
    /\ previous = NoRun

SpecFreeze == InitFreeze /\ [][NextFreeze]_vars

(***************************************************************************)
(* The loader alone: load_spec_file over a wider range of documents.       *)
(***************************************************************************)
\* slot "a" declares up to MaxEntries merge entries in the loader's specification
MaxEntries == 2

LoaderEntries ==
    {Entry2(S_o, S_main), Entry2(S_o, S_pr7), Entry2(S_p, S_dev), Entry2(S_o, ShaC),
     Entry3(S_o, S_url, S_main), Entry3(S_p, S_url2, S_dev)}

LoaderFrozen ==
    { {},
      { <<"a", { <<S_o, { <<S_main, ShaA>> }>> }>> },
      { <<"a", { <<S_o, { <<S_main, ShaA>>, <<S_pr7, ShaB>> }>>,
                 <<S_p, { <<S_dev, ShaD>> }>> }>> },
      { <<"a", { <<S_p, { <<S_dev, ShaD>> }>> }>> },
      { <<"odoo", { <<S_origin, { <<S_main, ShaA>> }>> }>> } }

SeqsUpTo(S, n) == UNION { [1..k -> S] : k \in 0..n }

LoaderSection(merges) ==
    [modules |-> <<<<"m">>>>, src |-> None,
     remotes |-> <<<<S_o, S_url>>, <<S_p, S_url2>>>>, merges |-> merges,
     shell_commands |-> <<>>, patch_globs |-> <<>>, target_folder |-> None,
     locales |-> <<>>]

InitLoader ==
    /\ \E merges \in SeqsUpTo(LoaderEntries, MaxEntries) :
          data = [s \in Slots |-> IF s = "a" THEN LoaderSection(merges) ELSE SectionOdoo]
    /\ workdir = <<>>
    /\ frozen_mapping \in LoaderFrozen
    /\ specs = [s \in Slots |-> NoSpec]
    /\ concurrency = 1
    /\ semaphore = 1
    /\ worker = [s \in Slots |-> NewWorker]
    /\ tree = [p \in Paths |-> NoTree]
    /\ links = [m \in Modules |-> NoLink]
    /\ mainpc = "load"
    /\ raised = FALSE
    /\ exit_code = 0
    /\ FreezerOff
    /\ previous = NoRun

NextLoader == LoadSpec

SpecLoader == InitLoader /\ [][NextLoader]_vars

(***************************************************************************)
(* Vocabulary of the properties.                                           *)
(***************************************************************************)
Done(s) == worker[s].pc = "done"
Failed(s) == Done(s) /\ worker[s].rc # 0
Succeeded(s) == Done(s) /\ worker[s].rc = 0

\* the workers between acquiring and releasing the semaphore
Holding == {s \in Slots : worker[s].pc \notin {"start", "acquire", "done"}}

\* the git and shell children in flight
InFlight == UNION { {<<s, c>> : c \in worker[s].inflight} : s \in Slots }

IsGit(c, word) == c.tool = "git" /\ c.argv[1] = Tok(word)
IsGit2(c, word, flag) == IsGit(c, word) /\ Len(c.argv) >= 2 /\ c.argv[2] = Tok(flag)
IsMerge(c) == IsGit2(c, "merge", "--no-edit")
IsMergeAbort(c) == IsGit2(c, "merge", "--abort")
IsFetchMulti(c) == IsGit2(c, "fetch", "-j")
IsUnshallow(c) == IsGit2(c, "fetch", "--unshallow")
IsRemoteAdd(c) == IsGit2(c, "remote", "add")
IsAm(c) == IsGit(c, "am")
IsLink(c) == c.tool = "os"
IsStatus(c) == IsGit(c, "status")

LogOf(s) == worker[s].log
Issued(s, P(_)) == \E i \in 1..Len(LogOf(s)) : P(LogOf(s)[i])

(***************************************************************************)
(* C1. process_project raises exactly when some slot worker returned a     *)
(* non-zero code, and the command line exits 0 exactly when every worker   *)
(* returned 0, non-zero otherwise.                                         *)
(***************************************************************************)
C1_SuccessIffAllSlotsSucceed ==
    /\ mainpc \in {"returned", "exit"} =>
          /\ \A s \in Slots : Done(s)
          /\ raised <=> (\E s \in Slots : worker[s].rc # 0)
    /\ mainpc = "exit" =>
          /\ (exit_code = 0) <=> (\A s \in Slots : worker[s].rc = 0)
          /\ (\E s \in Slots : worker[s].rc # 0) => exit_code # 0

\* one slot succeeded, the other failed, and the command line exited non-zero
C1_Witness ==
    /\ mainpc = "exit"
    /\ exit_code # 0
    /\ Succeeded("odoo")
    /\ Failed("a")

(***************************************************************************)
(* C2. The failure of a slot neither cancels nor skips a peer: the step in *)
(* which a worker returns a non-zero code changes no other worker, gives   *)
(* back the permit it held and does not end the run; process_project goes  *)
(* on only when every worker has returned its own status, and a status     *)
(* once returned is final.                                                 *)
(***************************************************************************)
C2_FailureDoesNotCancelPeers ==
    [][ /\ \A s \in Slots :
              (~Done(s) /\ Failed(s)') =>
                  /\ \A p \in Slots \ {s} : worker'[p] = worker[p]
                  /\ s \in Holding => semaphore' = semaphore + 1
                  /\ mainpc' = mainpc
        /\ (mainpc = "gather" /\ mainpc' # "gather") => \A s \in Slots : Done(s)
        /\ \A s \in Slots : Done(s) => worker'[s] = worker[s]
      ]_vars

\* with one permit slot "a" failed before "odoo" got the semaphore, and "odoo"
\* still ran all its steps and succeeded
C2_Witness ==
    /\ concurrency = 1
    /\ Failed("a")
    /\ Succeeded("odoo")
    /\ Issued("odoo", IsLink)
    /\ mainpc = "exit"

(***************************************************************************)
(* C3. At most `concurrency` workers are between acquiring and releasing   *)
(* the semaphore, a worker runs no tool before it holds a permit, and at   *)
(* most `concurrency` children are in flight.                              *)
(***************************************************************************)
C3_SemaphoreBoundsWorkers ==
    /\ Cardinality(Holding) <= concurrency
    /\ semaphore = concurrency - Cardinality(Holding)
    /\ \A s \in Slots : worker[s].pc \in {"start", "acquire"} =>
          worker[s].log = <<>> /\ worker[s].inflight = {}
    /\ \A s \in Slots : worker[s].inflight # {} => s \in Holding
    /\ Cardinality(InFlight) <= concurrency

\* one permit: slot "odoo" waits for it while a git child of slot "a" runs
C3_Witness ==
    /\ concurrency = 1
    /\ worker["odoo"].pc = "acquire"
    /\ worker["a"].inflight # {}

(***************************************************************************)
(* C4. A slot whose existing tree is dirty fails in RESET: its terminal    *)
(* status is a failure and it has issued no remote registration, no fetch, *)
(* no unshallow, no merge, no patch application and no link publication.   *)
(***************************************************************************)
C4_DirtyTreeFailsInReset ==
    \A s \in Slots :
        (Done(s) /\ Refs(s) # <<>> /\ TreeOf(s).exists /\ TreeOf(s).dirty) =>
            /\ Failed(s)
            /\ ~Issued(s, IsRemoteAdd)
            /\ ~Issued(s, IsFetchMulti)
            /\ ~Issued(s, IsUnshallow)
            /\ ~Issued(s, IsMerge)
            /\ ~Issued(s, IsAm)
            /\ ~Issued(s, IsLink)

(***************************************************************************)
(* C5. A merge that printed CONFLICT on stdout, whatever its exit code,    *)
(* is followed by merge --abort and by nothing else, and the slot returns  *)
(* a non-zero code.                                                        *)
(***************************************************************************)
C5_StdoutConflictFailsSlot ==
    \A s \in Slots :
        worker[s].res.out =>
            /\ worker[s].pc \in {"merge_abort", "done"}
            /\ worker[s].pc = "merge_abort" => worker[s].ret # 0
            /\ Done(s) =>
                  /\ worker[s].rc # 0
                  /\ Len(LogOf(s)) >= 2
                  /\ IsMergeAbort(LogOf(s)[Len(LogOf(s))])
                  /\ IsMerge(LogOf(s)[Len(LogOf(s)) - 1])

\* a merge exited 0 with CONFLICT on stdout, and the slot failed
C5_Witness ==
    /\ Failed("a")
    /\ worker["a"].res.out
    /\ worker["a"].res.ret = 0
    /\ IsMergeAbort(LogOf("a")[Len(LogOf("a"))])

(***************************************************************************)
(* C6. A merge that printed CONFLICT on stderr makes the slot fail, for    *)
(* every exit code of the merge.                                           *)
(***************************************************************************)
C6_StderrConflictFailsSlot ==
    \A s \in Slots :
        worker[s].res.err =>
            /\ worker[s].pc \in {"merge_abort", "done"}
            /\ Done(s) => worker[s].rc # 0

(***************************************************************************)
(* C7. The merges a slot has issued are the first of its non-base          *)
(* descriptors, in declaration order and one each; a slot that succeeded   *)
(* has issued all of them; a further merge starts only after the one       *)
(* before returned 0.                                                      *)
(***************************************************************************)
ExpectedMerges(s) ==
    [i \in 1..(Len(Refs(s)) - 1) |->
        Git(<<Tok("merge"), Tok("--no-edit"), get_local_ref(Refs(s)[i + 1])>>)]

MergesIssued(s) == SelectSeq(LogOf(s), IsMerge)

IsPrefixOf(p, q) == Len(p) <= Len(q) /\ SubSeq(q, 1, Len(p)) = p

C7_MergesInDeclarationOrder ==
    \A s \in Slots :
        /\ IsPrefixOf(MergesIssued(s), ExpectedMerges(s))
        /\ Succeeded(s) => MergesIssued(s) = ExpectedMerges(s)
        /\ (worker[s].pc = "merge" /\ worker[s].idx > 2) =>
              normalize_merge_result(worker[s].res.ret, worker[s].res.out,
                                     worker[s].res.err).ret = 0

\* slot "a" succeeded with two non-base references merged
C7_Witness ==
    /\ Succeeded("a")
    /\ Len(Refs("a")) = 3
    /\ Len(MergesIssued("a")) = 2

(***************************************************************************)
(* C8. The invocations of a slot follow the phases clone-or-reset, sparse  *)
(* checkout, remotes, fetches, merges, patches, links, never going back,   *)
(* and a slot never has two invocations in flight.                         *)
(***************************************************************************)
PhaseOf(c) ==
    IF c.tool = "os" THEN 7
    ELSE IF c.tool = "sh" THEN 6
    ELSE IF IsGit(c, "am") THEN 6
    ELSE IF IsGit(c, "merge") THEN 5
    ELSE IF IsFetchMulti(c) THEN 4
    ELSE IF IsGit(c, "remote") \/ IsGit(c, "config") THEN 3
    ELSE IF IsGit(c, "sparse-checkout") THEN 2
    ELSE IF IsGit(c, "checkout") /\ ~IsGit2(c, "checkout", "-b") THEN 2
    ELSE 1

C8_PhasesInSequence ==
    \A s \in Slots :
        /\ \A i \in 1..(Len(LogOf(s)) - 1) :
              PhaseOf(LogOf(s)[i]) <= PhaseOf(LogOf(s)[i + 1])
        /\ Cardinality(worker[s].inflight) <= 1

\* slot "a" went through every phase and succeeded
C8_Witness ==
    /\ Succeeded("a")
    /\ Issued("a", IsRemoteAdd)
    /\ Issued("a", IsFetchMulti)
    /\ Issued("a", IsMerge)
    /\ Issued("a", IsAm)
    /\ Issued("a", IsLink)
    /\ \E i \in 1..Len(LogOf("a")) : PhaseOf(LogOf("a")[i]) = 1
    /\ \E i \in 1..Len(LogOf("a")) : PhaseOf(LogOf("a")[i]) = 2

(***************************************************************************)
(* C9. A slot whose only reference is a branch pinned to a commit older    *)
(* than the branch tip, and which applies no patch and runs no shell       *)
(* command, has after it succeeded its HEAD at the pinned commit.          *)
(***************************************************************************)
PinnedOldBranchOnly(s) ==
    /\ Len(Refs(s)) = 1
    /\ Refs(s)[1].ref_name # None
    /\ get_origin_type(Refs(s)[1].ref_name) = "BRANCH"
    /\ IsCommitId(Refs(s)[1].refspec)
    /\ RemoteTip(Refs(s)[1].ref_name) # Refs(s)[1].refspec
    /\ SpecOf(s).patch_globs_to_apply = <<>>
    /\ SpecOf(s).shell_commands = <<>>

C9_HeadIsPinnedCommit ==
    \A s \in Slots :
        (Succeeded(s) /\ PinnedOldBranchOnly(s)) =>
            TreeOf(s).head = <<Refs(s)[1].refspec>>

(***************************************************************************)
(* C10. The descriptors of a slot are one per merge entry, in the order of *)
(* the merge list, and every entry whose remote and refspec have a pinned  *)
(* commit in the frozen section of the slot is loaded as refspec = the     *)
(* pinned commit, type = REF, ref_name = the original refspec.             *)
(***************************************************************************)
PinOf(s, remote, orig) ==
    LET section == IF DictHas(frozen_mapping, s) THEN DictGet(frozen_mapping, s) ELSE {}
    IN  DictGet(DictGetDict(section, remote), orig)

C10_PinnedEntriesRewritten ==
    mainpc = "gather" =>
        LET merges == data["a"].merges
            infos == specs["a"].refspec_info
        IN  /\ Len(infos) = Len(merges)
            /\ \A i \in 1..Len(merges) :
                  LET parts == Split(merges[i], " ", MergeMaxSplit)
                      remote == parts[1]
                      orig == parts[Len(parts)]
                      pin == PinOf("a", remote, orig)
                  IN  /\ infos[i].remote = remote
                      /\ infos[i].refspec = orig \/ infos[i].ref_name = orig
                      /\ pin # None =>
                            /\ infos[i].refspec = pin
                            /\ infos[i].type = "REF"
                            /\ infos[i].ref_name = orig

(***************************************************************************)
(* C11. A merge entry whose remote and refspec have no pinned commit is    *)
(* loaded with its refspec unchanged and with the type inferred from the   *)
(* shape of the refspec, when the slot has no frozen section and when the  *)
(* section pins other references only.                                     *)
(***************************************************************************)
C11_UnpinnedEntriesUntouched ==
    mainpc = "gather" =>
        LET merges == data["a"].merges
            infos == specs["a"].refspec_info
        IN  /\ Len(infos) = Len(merges)
            /\ \A i \in 1..Len(merges) :
                  LET parts == Split(merges[i], " ", MergeMaxSplit)
                      orig == parts[Len(parts)]
                  IN  PinOf("a", parts[1], orig) = None =>
                          /\ infos[i].refspec = orig
                          /\ infos[i].type = get_origin_type(orig)

(***************************************************************************)
(* C12. Every loaded descriptor has type REF exactly when its refspec is a *)
(* commit identifier of 40 hexadecimal digits, and has type REF when its   *)
(* ref_name is set.                                                        *)
(***************************************************************************)
C12_TypeRefIffCommitId ==
    mainpc = "gather" =>
        \A s \in Slots :
            \A i \in 1..Len(specs[s].refspec_info) :
                LET d == specs[s].refspec_info[i]
                IN  /\ d.type = "REF" <=> IsCommitId(d.refspec)
                    /\ d.ref_name # None => d.type = "REF"

(***************************************************************************)
(* The classifier alone: the loader applied, with no frozen document, to   *)
(* merge entries whose refspecs have every shape the patterns tell apart.  *)
(***************************************************************************)
RefspecPool ==
    {S_main, S_pr7,
     S_refs_pull \o S_head,
     S_refs_pull \o <<"4", "2">> \o S_head,
     S_refs_pull \o <<"7", "a">> \o S_head,
     <<"x">> \o S_pr7,
     S_pr7 \o <<"x">>,
     S_pr7 \o <<"\n">>,
     ShaA,
     Rep("0", HexLen),
     Rep("g", HexLen),
     Rep("a", HexLen - 1) \o <<"z">>,
     Rep("a", HexLen - 1),
     Rep("a", HexLen + 1),
     Rep("A", HexLen),
     ShaA \o <<"\n">>}

InitClassifier ==
    /\ \E refspecs \in SeqsUpTo(RefspecPool, MaxEntries) :
          data = [s \in Slots |->
                     IF s = "a"
                     THEN LoaderSection([i \in 1..Len(refspecs) |-> Entry2(S_o, refspecs[i])])
                     ELSE SectionOdoo]
    /\ workdir = <<>>
    /\ frozen_mapping = {}
    /\ specs = [s \in Slots |-> NoSpec]
    /\ concurrency = 1
    /\ semaphore = 1
    /\ worker = [s \in Slots |-> NewWorker]
    /\ tree = [p \in Paths |-> NoTree]
    /\ links = [m \in Modules |-> NoLink]
    /\ mainpc = "load"
    /\ raised = FALSE
    /\ exit_code = 0
    /\ FreezerOff
    /\ previous = NoRun

NextClassifier == LoadSpec

SpecClassifier == InitClassifier /\ [][NextClassifier]_vars

(***************************************************************************)
(* C13. The type of a refspec is PR when it is refs/pull/<digits>/head,    *)
(* REF when it is exactly 40 characters from 0-9 and a-f, and BRANCH in    *)
(* every other case.                                                       *)
(***************************************************************************)
C13_ClassifierByShape ==
    mainpc = "gather" =>
        LET merges == data["a"].merges
            infos == specs["a"].refspec_info
        IN  /\ Len(infos) = Len(merges)
            /\ \A i \in 1..Len(merges) :
                  LET v == Split(merges[i], " ", MergeMaxSplit)[2]
                  IN  /\ infos[i].type = get_origin_type(v)
                      /\ PrShape(v) => infos[i].type = "PR"
                      /\ (~PrShape(v) /\ IsCommitId(v)) => infos[i].type = "REF"
                      /\ (~PrShape(v) /\ ~IsCommitId(v)) => infos[i].type = "BRANCH"

(***************************************************************************)
(* C14. For every loaded descriptor the local ref the assembly fetch       *)
(* writes, the name passed to merge and the name freeze resolves are the   *)
(* same string "loc-" + (ref_name or refspec).                             *)
(***************************************************************************)
C14_OneLocalRefName ==
    mainpc = "gather" =>
        \A i \in 1..Len(specs["a"].refspec_info) :
            LET d == specs["a"].refspec_info[i]
                name == S_loc \o Str(OrElse(d.ref_name, d.refspec))
            IN  /\ FetchMappings(<<d>>) = <<Str(d.refspec) \o <<":">> \o name>>
                /\ get_local_ref(d) = name
                /\ rev_list_args(d)[4] = name

(***************************************************************************)
(* Observations on the documents of freeze.                                *)
(***************************************************************************)
HasLeaf(document, s, remote, key) ==
    /\ DictHas(document, s)
    /\ DictHas(DictGet(document, s), remote)
    /\ DictHas(DictGet(DictGet(document, s), remote), key)

Leaf(document, s, remote, key) == DictGet(DictGet(DictGet(document, s), remote), key)

Leaves(document) ==
    {e[2] : e \in UNION {r[2] : r \in UNION {sec[2] : sec \in document}}}

\* the last freeze run ended and wrote its document, after an assembly that exited 0
FrozenAfterSuccess ==
    /\ mainpc = "exit"
    /\ exit_code = 0
    /\ frzpc = "exit"
    /\ freeze_runs # <<>>
    /\ freeze_runs[Len(freeze_runs)].written

(***************************************************************************)
(* C15. After an assembly that succeeded, the document of freeze has for   *)
(* every slot and every reference of the slot, the base included, an entry *)
(* slot -> remote -> (ref_name or refspec) whose value is the commit at    *)
(* the tip of the local ref of that reference in the slot's tree.          *)
(***************************************************************************)
C15_FreezeRecordsEveryReference ==
    FrozenAfterSuccess =>
        LET document == freeze_runs[Len(freeze_runs)].document IN
        \A s \in Slots :
            \A i \in 1..Len(Refs(s)) :
                LET d == Refs(s)[i]
                    key == OrElse(d.ref_name, d.refspec)
                    branches == tree[FrzPathOf(s)].branches
                IN  /\ HasLeaf(document, s, d.remote, key)
                    /\ \E ref \in {get_local_ref(d), utils_get_local_ref(d)} :
                          /\ HasRef(branches, ref)
                          /\ Leaf(document, s, d.remote, key) = Newest(RefAt(branches, ref))

(***************************************************************************)
(* C16. Every leaf of a document written by freeze is a commit identifier  *)
(* of 40 hexadecimal digits; nothing empty is written for a reference      *)
(* whose local ref does not resolve.                                       *)
(***************************************************************************)
C16_LeavesAreCommitIds ==
    \A k \in 1..Len(freeze_runs) :
        freeze_runs[k].written =>
            \A v \in Leaves(freeze_runs[k].document) : IsCommitId(v)

(***************************************************************************)
(* C17. Freeze runs in succession over the same trees end alike and write  *)
(* the same document, whatever the order their tasks ended in and whatever *)
(* the concurrency; a freeze run changes no tree.                          *)
(***************************************************************************)
C17_FreezeIdempotent ==
    \A i, j \in 1..Len(freeze_runs) :
        /\ freeze_runs[i].exit_code = freeze_runs[j].exit_code
        /\ freeze_runs[i].written = freeze_runs[j].written
        /\ freeze_runs[i].document = freeze_runs[j].document

\* two freeze runs whose tasks ended in different orders wrote a document with a
\* commit in it, the second after loading the document of the first
C17_Witness ==
    /\ Len(freeze_runs) = 2
    /\ freeze_runs[1].written
    /\ freeze_runs[2].written
    /\ freeze_runs[1].order # freeze_runs[2].order
    /\ \E v \in Leaves(freeze_runs[2].document) : IsCommitId(v)
    /\ \E i \in 1..Len(Refs("a")) :
          /\ Refs("a")[i].ref_name = S_dev
          /\ Refs("a")[i].refspec = ShaD

(***************************************************************************)
(* The specification of the links: every feature of slot "a" is declared,  *)
(* the working directory is given as a relative or as an absolute path,    *)
(* slot "a" declares two modules and slot "odoo" may declare one of them.  *)
(***************************************************************************)
SectionLinksA ==
    [modules |-> <<<<"m">>, <<"n">>>>,
     src |-> None,
     remotes |-> <<<<S_o, S_url>>, <<S_p, S_url2>>>>,
     merges |-> <<Entry2(S_o, S_main)>> \o Prefix(MergePool, MaxMerges),
     shell_commands |-> <<<<"c">>>>,
     patch_globs |-> Prefix(PatchPool, MaxPatches),
     target_folder |-> None,
     locales |-> <<>>]

InitLinks ==
    /\ workdir \in Workdirs
    /\ data \in [Slots -> {SectionLinksA} \cup SectionsOdoo]
    /\ data["a"] = SectionLinksA
    /\ data["odoo"] \in SectionsOdoo
    /\ frozen_mapping \in FrozenMappings
    /\ specs = [s \in Slots |-> NoSpec]
    /\ concurrency \in 1..MaxConcurrency
    /\ semaphore = concurrency
    /\ worker = [s \in Slots |-> NewWorker]
    /\ tree \in [Paths -> InitialTreesA]
    /\ tree[PathOdoo] = NoTree
    /\ links \in InitialLinks(workdir, data["a"].modules)
    /\ (links = EarlierLinks(workdir, data["a"].modules)) = tree[PathA].exists
    /\ mainpc = "load"
    /\ raised = FALSE
    /\ exit_code = 0
    /\ FreezerOff
    /\ previous = NoRun

SpecLinks == InitLinks /\ [][Next]_vars

\* module is one of module_list
Declares(module_list, module) == \E i \in 1..Len(module_list) : module_list[i] = module

\* C18: after slot "a" (a slot other than "odoo") succeeded, every module of
\* the slot that passed the symlink filter, and that no other slot
\* publishes, has links/<module> as a symlink that resolves to
\* <slot_path>/<module> and whose stored target is a relative path
C18_LinkResolvesIntoSlotRelative ==
    \A m \in Modules :
        ( /\ Succeeded("a")
          /\ Declares(worker["a"].symlink_modules, m)
          /\ ~Declares(specs["odoo"].modules, m) )
        => /\ links[m].kind = "symlink"
           /\ Resolve(LinkPath(workdir, m), links[m].target)
                  = AbsPath(workdir \o get_module_path("a", specs["a"]) \o <<m>>)
           /\ ~IsAbsolute(links[m].target)

\* the slot's task has run the symlink filter on module, declared by the
\* slot and kept under links/ as a real directory
FilteredOut(s, module) ==
    /\ worker[s].pc # "start"
    /\ Declares(specs[s].modules, module)
    /\ links[module].kind = "dir"

IsSparseSet(c) == IsGit2(c, "sparse-checkout", "set")

\* the arguments of the command after its first `fixed` words name module
Names(c, fixed, module) == \E k \in (fixed + 1)..Len(c.argv) : c.argv[k] = module

WarnedAboutDirectory(s, module) == Warning("Watchout", module) \in worker[s].warned

PassedToSparseSet(s, module) ==
    \E i \in 1..Len(LogOf(s)) : IsSparseSet(LogOf(s)[i]) /\ Names(LogOf(s)[i], 2, module)

Published(s, module) ==
    \E i \in 1..Len(LogOf(s)) : IsLink(LogOf(s)[i]) /\ Names(LogOf(s)[i], 1, module)

DirectoryKept == \A m \in Modules : links[m].kind = "dir" => links'[m] = links[m]

\* C19: a declared module that links/ holds as a real directory is warned
\* about, is not among the modules the slot publishes, is not passed to
\* sparse-checkout set, and the real directory is never replaced
C19_RealDirectoryExcluded ==
    /\ [](\A s \in Slots : \A m \in Modules :
             FilteredOut(s, m)
             => /\ WarnedAboutDirectory(s, m)
                /\ ~Declares(worker[s].symlink_modules, m)
                /\ ~Published(s, m)
                /\ ~PassedToSparseSet(s, m))
    /\ [][DirectoryKept]_vars

\* two slots of the project declare module
DeclaredTwice(module) ==
    \E s1, s2 \in Slots :
        /\ s1 # s2
        /\ Declares(specs[s1].modules, module)
        /\ Declares(specs[s2].modules, module)

\* some warning printed during the run names module
WarnedAbout(module) == \E s \in Slots : \E w \in worker[s].warned : w.module = module

\* C20: when two slots declare the same module, a warning naming that
\* module has been emitted by the time the run is over
C20_DuplicateModuleWarned ==
    \A m \in Modules : (mainpc = "exit" /\ DeclaredTwice(m)) => WarnedAbout(m)

(***************************************************************************)
(* C21. A slot with an empty reference list fails without a tool           *)
(* invocation and without touching its tree or links/, and the run fails.  *)
(***************************************************************************)
NoReferences(s) == mainpc # "load" /\ Refs(s) = <<>>

\* the steps of the worker of a slot without references leave its tree path
\* and links/ as they are
NoReferencesTouchesNothing ==
    \A s \in Slots :
        (NoReferences(s) /\ worker'[s] # worker[s])
        => /\ tree'[PathOf(s)] = tree[PathOf(s)]
           /\ links' = links

\* C21: a slot with an empty reference list ends failed with no tool
\* invocation, its worker never changes its tree path or links/, and the
\* run exits non-zero
C21_NoReferencesRejected ==
    /\ [](\A s \in Slots :
             NoReferences(s)
             => /\ LogOf(s) = <<>>
                /\ worker[s].inflight = {}
                /\ worker[s].pc \in {"start", "acquire", "done"}
                /\ Done(s) => Failed(s)
                /\ mainpc = "exit" => exit_code # 0)
    /\ [][NoReferencesTouchesNothing]_vars

\* the run is over: the slot without references failed with an empty log
\* while the other slot succeeded
C21_Witness ==
    /\ mainpc = "exit"
    /\ NoReferences("a")
    /\ Failed("a")
    /\ LogOf("a") = <<>>
    /\ Succeeded("odoo")
    /\ exit_code # 0

(***************************************************************************)
(* C22. A slot with the base reference alone fetches and merges nothing    *)
(* and is published.                                                       *)
(***************************************************************************)
OneReference(s) == mainpc # "load" /\ Len(Refs(s)) = 1

IsClone(c) == IsGit(c, "clone")
IsReset(c) == IsGit2(c, "reset", "--hard")

\* the clone or the reset --hard of slot s ran and exited with 0
BasePrepared(s) ==
    /\ Issued(s, IsClone) \/ Issued(s, IsReset)
    /\ worker[s].nonzero \cap {"clone", "reset"} = {}

\* C22: a slot with exactly one reference issues no fetch-multi and no merge;
\* once it returned after a clone or reset that exited with 0, and no shell
\* command or patch failed, it has published its links and succeeded
C22_BaseOnlySlotPublishes ==
    \A s \in Slots :
        OneReference(s)
        => /\ ~Issued(s, IsFetchMulti)
           /\ ~Issued(s, IsMerge)
           /\ (Done(s) /\ BasePrepared(s) /\ worker[s].nonzero \cap {"shell", "am"} = {})
              => (Succeeded(s) /\ Issued(s, IsLink))

\* slot "a" declares its base alone, cloned it, applied what it declares and
\* succeeded without a fetch-multi or a merge
C22_Witness ==
    /\ OneReference("a")
    /\ Succeeded("a")
    /\ BasePrepared("a")
    /\ Issued("a", IsClone)
    /\ Issued("a", IsLink)
    /\ ~Issued("a", IsFetchMulti)
    /\ ~Issued("a", IsMerge)

(***************************************************************************)
(* C23. A fetch-multi that exits non-zero.                                 *)
(***************************************************************************)
FetchFailed(s) == "fetch_multi" \in worker[s].nonzero

\* C23: once a fetch-multi of the slot exited non-zero, the slot issues no
\* merge, no patch application and no link publication, and ends failed
C23_FetchFailureFailsSlot ==
    \A s \in Slots :
        FetchFailed(s)
        => /\ ~Issued(s, IsMerge)
           /\ ~Issued(s, IsAm)
           /\ ~Issued(s, IsLink)
           /\ Done(s) => Failed(s)

(***************************************************************************)
(* C24. A clone or a reset --hard that exits non-zero.                     *)
(***************************************************************************)
BaseFailed(s) == worker[s].nonzero \cap {"clone", "reset"} # {}

IsSparseCheckout(c) == IsGit(c, "sparse-checkout")

\* C24: once the clone or the reset --hard of the slot exited non-zero, the
\* slot issues no sparse-checkout, remote registration, fetch-multi, merge,
\* patch application or link publication, and ends failed
C24_BaseFailureFailsSlot ==
    \A s \in Slots :
        BaseFailed(s)
        => /\ ~Issued(s, IsSparseCheckout)
           /\ ~Issued(s, IsRemoteAdd)
           /\ ~Issued(s, IsFetchMulti)
           /\ ~Issued(s, IsMerge)
           /\ ~Issued(s, IsAm)
           /\ ~Issued(s, IsLink)
           /\ Done(s) => Failed(s)

(***************************************************************************)
(* The specification of the patches: slot "a" declares every glob of the   *)
(* pool after any number of merges.                                        *)
(***************************************************************************)
InitPatches ==
    /\ workdir = <<>>
    /\ \E sec \in SectionsA :
          data = [s \in Slots |->
                     IF s = "a" THEN [sec EXCEPT !.patch_globs = PatchPool] ELSE SectionOdoo]
    /\ frozen_mapping \in FrozenMappings
    /\ specs = [s \in Slots |-> NoSpec]
    /\ concurrency \in 1..MaxConcurrency
    /\ semaphore = concurrency
    /\ worker = [s \in Slots |-> NewWorker]
    /\ tree \in [Paths -> InitialTreesA]
    /\ tree[PathOdoo] = NoTree
    /\ links \in InitialLinks(workdir, data["a"].modules)
    /\ (links = EarlierLinks(workdir, data["a"].modules)) = tree[PathA].exists
    /\ mainpc = "load"
    /\ raised = FALSE
    /\ exit_code = 0
    /\ FreezerOff
    /\ previous = NoRun

SpecPatches == InitPatches /\ [][Next]_vars

IsAmAbort(c) == IsGit2(c, "am", "--abort")
IsAmApply(c) == IsAm(c) /\ ~IsAmAbort(c)

ExpectedAms(s) ==
    [i \in 1..Len(specs[s].patch_globs_to_apply) |->
        Git(<<Tok("am"), specs[s].patch_globs_to_apply[i]>>)]

AmsIssued(s) == SelectSeq(LogOf(s), IsAmApply)

\* every merge the slot declares ran, exited with 0 and was not aborted
EveryMergeSucceeded(s) ==
    /\ MergesIssued(s) = ExpectedMerges(s)
    /\ "merge" \notin worker[s].nonzero
    /\ ~Issued(s, IsMergeAbort)

\* C25: the globs are applied in declaration order, and only after every
\* merge succeeded; once a git am exited non-zero the slot only aborts it
\* and returns: am --abort is its last invocation, no later glob and no link
\* follow, and the slot ends failed
C25_PatchesInOrderAbortOnFailure ==
    \A s \in Slots :
        /\ IsPrefixOf(AmsIssued(s), ExpectedAms(s))
        /\ Issued(s, IsAmApply) => EveryMergeSucceeded(s)
        /\ "am" \in worker[s].nonzero
           => /\ worker[s].pc \in {"am_abort", "done"}
              /\ ~Issued(s, IsLink)
              /\ Done(s) => (Failed(s) /\ IsAmAbort(LogOf(s)[Len(LogOf(s))]))

(***************************************************************************)
(* The specification of the fetches: after its base, slot "a" declares any *)
(* sequence of different merges over two remotes, one of them with two     *)
(* refspecs; the tree of an earlier run is clean.                          *)
(***************************************************************************)
FetchPool == { Entry2(S_o, S_pr7), Entry2(S_o, S_fix), Entry2(S_p, S_dev) }

NoRepeat(seq) == \A i, j \in 1..Len(seq) : i # j => seq[i] # seq[j]

InitFetch ==
    /\ workdir = <<>>
    /\ \E merges \in { m \in SeqsUpTo(FetchPool, MaxMerges) : NoRepeat(m) } :
          data = [s \in Slots |->
                     IF s = "a"
                     THEN [LoaderSection(<<Entry2(S_o, S_main)>> \o merges)
                              EXCEPT !.shell_commands = <<<<"c">>>>,
                                     !.patch_globs = <<PatchPool[1]>>]
                     ELSE SectionOdoo]
    /\ frozen_mapping \in FrozenMappings
    /\ specs = [s \in Slots |-> NoSpec]
    /\ concurrency \in 1..MaxConcurrency
    /\ semaphore = concurrency
    /\ worker = [s \in Slots |-> NewWorker]
    /\ tree \in [Paths -> InitialTreesA]
    /\ tree[PathOdoo] = NoTree
    /\ ~tree[PathA].dirty
    /\ links \in InitialLinks(workdir, data["a"].modules)
    /\ (links = EarlierLinks(workdir, data["a"].modules)) = tree[PathA].exists
    /\ mainpc = "load"
    /\ raised = FALSE
    /\ exit_code = 0
    /\ FreezerOff
    /\ previous = NoRun

SpecFetch == InitFetch /\ [][Next]_vars

(***************************************************************************)
(* C26. One fetch per remote, with a mapping for each of its references.   *)
(***************************************************************************)
NonBase(s) == IF Refs(s) = <<>> THEN <<>> ELSE Tail(Refs(s))

RefsOfRemote(s, remote) == SelectSeq(NonBase(s), LAMBDA d : d.remote = remote)

\* <refspec>:<local_ref>
MappingOf(d) == Str(d.refspec) \o <<":">> \o get_local_ref(d)

ExpectedMappings(s, remote) ==
    [i \in 1..Len(RefsOfRemote(s, remote)) |-> MappingOf(RefsOfRemote(s, remote)[i])]

FetchesIssued(s) == SelectSeq(LogOf(s), IsFetchMulti)

\* git fetch -j <jobs> <remote> <mapping> ...
FetchJobs(c) == c.argv[3]
FetchRemote(c) == c.argv[4]
FetchMappingsOf(c) == SubSeq(c.argv, 5, Len(c.argv))

\* C26: every fetch-multi of a slot has -j equal to the concurrency and
\* carries the mappings of exactly the non-base references of its remote, no
\* remote is fetched twice, and a slot that is past the fetches has fetched
\* the remote of every non-base reference
C26_OneFetchPerRemote ==
    \A s \in Slots :
        LET f == FetchesIssued(s) IN
        /\ \A i \in 1..Len(f) :
               /\ FetchJobs(f[i]) = NatStr(concurrency)
               /\ RefsOfRemote(s, FetchRemote(f[i])) # <<>>
               /\ FetchMappingsOf(f[i]) = ExpectedMappings(s, FetchRemote(f[i]))
        /\ \A i, j \in 1..Len(f) : i # j => FetchRemote(f[i]) # FetchRemote(f[j])
        /\ (Issued(s, IsMerge) \/ Succeeded(s))
           => \A k \in 1..Len(NonBase(s)) :
                  \E i \in 1..Len(f) : FetchRemote(f[i]) = NonBase(s)[k].remote

\* slot "a" succeeded after a single fetch that carried two mappings
C26_Witness ==
    /\ Succeeded("a")
    /\ Len(FetchesIssued("a")) = 1
    /\ Len(FetchMappingsOf(FetchesIssued("a")[1])) = 2
    /\ Len(NonBase("a")) = 2

(***************************************************************************)
(* C27. When the clone plan is sparse.                                     *)
(***************************************************************************)
HasArg(c, word) == \E k \in 1..Len(c.argv) : c.argv[k] = Tok(word)

\* C27: the clone command of a slot carries --sparse exactly when the slot
\* is not "odoo", or is "odoo" with a non-empty locale list
C27_SparseUnlessOdooWithoutLocales ==
    \A s \in Slots :
        \A i \in 1..Len(LogOf(s)) :
            IsClone(LogOf(s)[i])
            => (HasArg(LogOf(s)[i], "--sparse") <=> (s # "odoo" \/ specs[s].locales # <<>>))

(***************************************************************************)
(* C28. The local branch of the base                                       *)
(***************************************************************************)
\* setup_new_repo of slot s is over and its clone exited with 0
CloneSucceeded(s) ==
    /\ Issued(s, IsClone)
    /\ "clone" \notin worker[s].nonzero
    /\ worker[s].pc \notin {"clone", "checkout_b"}

BaseBranchExists(s) == HasRef(TreeOf(s).branches, get_local_ref(Root(s)))

ResetsToBaseBranch(s) ==
    \A i \in 1..Len(LogOf(s)) :
        IsReset(LogOf(s)[i]) => LogOf(s)[i].argv[3] = get_local_ref(Root(s))

\* C28: after a successful clone the tree has a local branch named
\* local_ref(base), whatever the type of the base, and every reset --hard of
\* the slot names local_ref(base) as its target
C28_BaseBranchCreatedAndResetTo ==
    \A s \in Slots :
        /\ CloneSucceeded(s) => BaseBranchExists(s)
        /\ ResetsToBaseBranch(s)

(***************************************************************************)
(* C29. Termination                                                        *)
(***************************************************************************)
\* The event loop runs a coroutine that is ready, and every child that was
\* started exits: the program does not stop while one of its steps is possible.
Fairness == WF_vars(Next)

\* the runs of the liveness check: slot "a" has no reference at all or
\* MaxMerges of them, with shell commands and MaxPatches patch globs
InitLive ==
    /\ Init
    /\ Len(data["a"].merges) \in {0, MaxMerges}
    /\ Len(data["a"].patch_globs) = MaxPatches
    /\ data["a"].shell_commands # <<>>

SpecLive == InitLive /\ [][Next]_vars /\ Fairness

AllPermitsFree == semaphore = concurrency

SchedulerReturned == mainpc \in {"returned", "exit"}

\* C29: when every tool invocation terminates, every slot worker reaches a
\* terminal status, whichever way it leaves (return 0, failure return, raised
\* error) it gives its permit back, and the scheduler returns with every
\* permit free
C29_EveryWorkerEndsAndPermitsReturn ==
    <>(/\ SchedulerReturned
       /\ AllPermitsFree
       /\ \A s \in Slots : Done(s) /\ worker[s].inflight = {})

\* one permit: slot "a" left by the raised error of a child started in a tree
\* that its failed clone never made, slot "odoo" took the permit and
\* returned 0, and the scheduler is back
C29_Witness ==
    /\ concurrency = 1
    /\ mainpc = "exit"
    /\ AllPermitsFree
    /\ Failed("a") /\ "clone" \in worker["a"].nonzero /\ ~TreeOf("a").exists
    /\ Succeeded("odoo")

(***************************************************************************)
(* C30. The trees of two slots. Slot "a" may name src as its target_folder, *)
(* the folder of an "odoo" slot that names none.                           *)
(***************************************************************************)
TargetFolders == { None, Tok("src") }

InitPaths ==
    /\ workdir = <<>>
    /\ \E sec \in SectionsA, folder \in TargetFolders :
          data = [s \in Slots |-> IF s = "a" THEN [sec EXCEPT !.target_folder = folder]
                                  ELSE SectionOdoo]
    /\ Len(data["a"].merges) \in {0, MaxMerges}
    /\ frozen_mapping \in FrozenMappings
    /\ specs = [s \in Slots |-> NoSpec]
    /\ concurrency \in 1..MaxConcurrency
    /\ semaphore = concurrency
    /\ worker = [s \in Slots |-> NewWorker]
    /\ tree \in [Paths -> InitialTreesA]
    /\ tree[PathOdoo] = NoTree
    /\ links \in InitialLinks(workdir, data["a"].modules)
    /\ (links = EarlierLinks(workdir, data["a"].modules)) = tree[PathA].exists
    /\ mainpc = "load"
    /\ raised = FALSE
    /\ exit_code = 0
    /\ FreezerOff
    /\ previous = NoRun

SpecPaths == InitPaths /\ [][Next]_vars

\* two slots whose children are in flight at the same time in one tree
ShareTree(s1, s2) ==
    /\ s1 # s2
    /\ PathOf(s1) = PathOf(s2)
    /\ worker[s1].inflight # {}
    /\ worker[s2].inflight # {}

\* C30: the module paths of two distinct slots of a project differ, and so no
\* two slots have a tool invocation in flight in the same tree
C30_DistinctSlotsDistinctTrees ==
    /\ mainpc # "load" =>
          \A s1, s2 \in Slots : s1 # s2 => PathOf(s1) # PathOf(s2)
    /\ \A s1, s2 \in Slots : ~ShareTree(s1, s2)

(***************************************************************************)
(* C31. When links/ is written. The tree of slot "a" and links/ are taken  *)
(* independently: an earlier run that stopped before link_all_modules left *)
(* a tree and no link.                                                     *)
(***************************************************************************)
InitRelink ==
    /\ workdir = <<>>
    /\ data \in [Slots -> SectionsA \cup {SectionOdoo}]
    /\ data["a"] \in SectionsA
    /\ Len(data["a"].merges) \in {0, MaxMerges}
    /\ Len(data["a"].patch_globs) = MaxPatches
    /\ data["a"].shell_commands # <<>>
    /\ data["odoo"] = SectionOdoo
    /\ frozen_mapping \in FrozenMappings
    /\ specs = [s \in Slots |-> NoSpec]
    /\ concurrency \in 1..MaxConcurrency
    /\ semaphore = concurrency
    /\ worker = [s \in Slots |-> NewWorker]
    /\ tree \in [Paths -> InitialTreesA]
    /\ tree[PathOdoo] = NoTree
    /\ links \in InitialLinks(workdir, data["a"].modules)
    /\ mainpc = "load"
    /\ raised = FALSE
    /\ exit_code = 0
    /\ FreezerOff
    /\ previous = NoRun

SpecRelink == InitRelink /\ [][Next]_vars

\* every phase of slot s before the links went through: no child exited with
\* a code other than 0, and a tree that was there was reset
EarlierPhasesCompleted(s) ==
    /\ worker[s].nonzero = {}
    /\ Issued(s, IsStatus) => Issued(s, IsReset)

\* the step in which slot s leaves link_all_modules
LinkStep(s) == worker[s].pc = "link" /\ worker'[s].pc = "done"

\* C31: an entry of links/ changes only in the last step of a slot that
\* completed every earlier phase; a slot that fails in clone, reset, fetch,
\* merge, shell command or patch application changes none
C31_LinksReplacedOnlyAfterEveryPhase ==
    [][links' # links => \E s \in Slots : LinkStep(s) /\ EarlierPhasesCompleted(s)]_vars

(***************************************************************************)
(* C32. The assembly run twice. run() is started again after a run that    *)
(* exited with 0 and left clean trees; the documents and the remotes are   *)
(* the same.                                                               *)
(***************************************************************************)
\* a frozen document that pins every reference slot "a" may declare
FullPins ==
    { <<"a", { <<S_o, { <<S_main, ShaA>>, <<S_pr7, ShaC>>, <<S_fix, ShaD>> }>>,
               <<S_p, { <<S_dev, ShaD>> }>> }>> }

InitRerun ==
    /\ workdir = <<>>
    /\ data \in [Slots -> SectionsA \cup {SectionOdoo}]
    /\ data["a"] \in SectionsA
    /\ Len(data["a"].merges) \in 1..MaxMerges
    /\ Len(data["a"].patch_globs) = MaxPatches
    /\ data["a"].shell_commands # <<>>
    /\ data["odoo"] = SectionOdoo
    /\ frozen_mapping \in {{}, FullPins}
    /\ specs = [s \in Slots |-> NoSpec]
    /\ concurrency = 1
    /\ semaphore = concurrency
    /\ worker = [s \in Slots |-> NewWorker]
    /\ tree \in [Paths -> InitialTreesA]
    /\ tree[PathOdoo] = NoTree
    /\ links \in InitialLinks(workdir, data["a"].modules)
    /\ (links = EarlierLinks(workdir, data["a"].modules)) = tree[PathA].exists
    /\ mainpc = "load"
    /\ raised = FALSE
    /\ exit_code = 0
    /\ FreezerOff
    /\ previous = NoRun

\* __main__.run in a new process, after a run that exited with 0 and left
\* every tree clean: a new SpecProcessor with a new semaphore
run_again ==
    /\ mainpc = "exit"
    /\ exit_code = 0
    /\ previous = NoRun
    /\ frzpc = "off"
    /\ \A s \in Slots : ~TreeOf(s).dirty
    /\ previous' = [s \in Slots |-> TreeOf(s).head]
    /\ specs' = [s \in Slots |-> NoSpec]
    /\ worker' = [s \in Slots |-> NewWorker]
    /\ semaphore' = concurrency
    /\ mainpc' = "load"
    /\ raised' = FALSE
    /\ exit_code' = 0
    /\ UNCHANGED <<workdir, freeze_vars, data, frozen_mapping, concurrency, tree, links>>

NextRerun ==
    \/ Next
    \/ run_again

SpecRerun == InitRerun /\ [][NextRerun]_vars

\* every reference of slot s is loaded with its pin: the commit as refspec,
\* the declared name as ref_name
EveryReferencePinned(s) ==
    /\ Refs(s) # <<>>
    /\ \A i \in 1..Len(Refs(s)) :
          /\ Refs(s)[i].ref_name # None
          /\ IsCommitId(Str(Refs(s)[i].refspec))

\* the remotes answer and the tools work in this run of slot s: no child
\* that reaches a remote or writes the tree exited with a code other than 0,
\* and no merge reported a conflict
ToolsSucceed(s) ==
    /\ worker[s].nonzero \subseteq {"reset"}
    /\ ~Issued(s, IsMergeAbort)

SecondRunOver(s) == previous # NoRun /\ mainpc # "load" /\ Done(s)

\* C32: a slot whose every reference is pinned, assembled again on the clean
\* tree a successful run left, with the remotes unchanged, succeeds and ends
\* with the HEAD the first run ended with
C32_PinnedSlotKeepsHead ==
    \A s \in Slots :
        (SecondRunOver(s) /\ EveryReferencePinned(s) /\ ToolsSucceed(s)) =>
            /\ Succeeded(s)
            /\ TreeOf(s).head = previous[s]

(***************************************************************************)
(* C33. A three-part merge entry "<remote> <url> <refspec>" is accepted    *)
(* with the deprecation warning and is loaded, under every frozen          *)
(* document, as a descriptor of its remote whose refspec is not None; when *)
(* the frozen section of the slot pins (remote, refspec) the descriptor    *)
(* carries the pinned commit with type REF, as the two-part form does.     *)
(***************************************************************************)
IsThreePart(merge_entry) == Len(Split(merge_entry, " ", MergeMaxSplit)) = 3

C33_ThreePartEntryYieldsValidDescriptor ==
    mainpc = "gather" =>
        LET merges == data["a"].merges
            infos == specs["a"].refspec_info
        IN  \A i \in 1..Len(merges) :
                IsThreePart(merges[i]) =>
                    LET parts == Split(merges[i], " ", MergeMaxSplit)
                        pin == PinOf("a", parts[1], parts[3])
                    IN  /\ Warning("Deprecated src format", None) \in worker["a"].warned
                        /\ i <= Len(infos)
                        /\ infos[i].remote = parts[1]
                        /\ infos[i].refspec # None
                        /\ pin # None =>
                              /\ infos[i].refspec = pin
                              /\ infos[i].type = "REF"

====
